---- MODULE Spec2Model ----
(***************************************************************************)
(* Product domain engine of the e-commerce catalogue: the product variant  *)
(* hierarchy (Producto, ProductoDigital, ProductoNatural, ProductoNull),   *)
(* its stock lifecycle, the Money value object and the CarritoCompras      *)
(* aggregate.                                                              *)
(*                                                                         *)
(* Numbers: stock and quantities are integers.  A Money amount is an       *)
(* integer number of cents; prices and discounts are drawn so that every   *)
(* product amount.(1 - d/100) is a whole number of cents.                  *)
(***************************************************************************)
EXTENDS Integers, Sequences, FiniteSets, TLC

VARIABLES
    objetos,    \* the product objects that exist, by reference
    items,      \* CarritoCompras.items: product id -> [producto, cantidad]
    reloj,      \* the value new Date() returns
    eventos,    \* the events the last operation handed to ProductoEventEmitter.emit
    ultimo,     \* the last call: operation, receiver, argument, outcome
    reduccion,  \* the reducirStock call that the last call is or directly follows
    handlers,   \* ProductoEventEmitter.handlers, in subscription order
    entregas,   \* the handler invocations made during the last operation, in order
    actualizados, \* the arguments of the repository.update calls of the last service call
    carro       \* CarritoCompras.instance, the CarritoCompras objects that exist and
                \* the carrito field of each CarritoServiceImpl

vars == <<objetos, items, reloj, eventos, ultimo, reduccion, handlers, entregas,
          actualizados, carro>>

----------------------------------------------------------------------------
(* Bounds of the model *)

MaxStock == 2
MaxCantidad == 2
MaxReloj == 1
NumRelleno == 9

(* CarritoCompras.maxItemsPermitidos *)
maxItemsPermitidos == 10

----------------------------------------------------------------------------
(* Error messages thrown by the code *)

OK == "ok"
ErrNombreVacio == "El nombre del producto no puede estar vacío"
ErrDescripcionVacia == "La descripción del producto no puede estar vacía"
ErrStockNegativo == "El stock no puede ser negativo"
ErrCantidadReducir == "La cantidad a reducir debe ser positiva"
ErrCantidadAumentar == "La cantidad a aumentar debe ser positiva"
ErrStockInsuficiente == "No hay suficiente stock disponible"
ErrDescuento == "El descuento debe estar entre 0 y 100"
ErrTamano == "El tamaño no puede ser negativo"
ErrIngredientes == "El producto natural debe tener al menos un ingrediente"
ErrBeneficios == "El producto natural debe tener al menos un beneficio listado"
ErrNombreObligatorio == "El nombre del producto es obligatorio"
ErrDescripcionObligatoria == "La descripción del producto es obligatoria"
ErrCategoriaObligatoria == "La categoría del producto es obligatoria"
ErrUrlObligatoria == "La URL de descarga del producto digital es obligatoria"
ErrNuloReducir == "No se puede reducir el stock de un producto nulo"
ErrNuloAumentar == "No se puede aumentar el stock de un producto nulo"
ErrNuloModificar == "No se puede modificar un producto nulo"
ErrNoDisponible == "El producto no está disponible"
ErrMaxItems == "No se pueden agregar más de 10 items diferentes al carrito"
ErrNoEnCarrito == "El producto no existe en el carrito"
ErrMonedas == "Cannot operate on Money with different currencies"
ErrDiscountRange == "Discount percentage must be between 0 and 100"
ErrAmount == "Amount must be a valid number"
ErrCurrency == "Currency must be a valid 3-letter code"
ErrIdVacio == "Product ID cannot be empty"
ErrNoEncontrado == "Producto con ID no encontrado"
ErrRepositorio == "Not found"
ErrHandler == "handler failed"
ErrVisitNatural == "visitor.visitProductoNatural is not a function"

----------------------------------------------------------------------------
(* Money *)

Money(amount, currency) == [amount |-> amount, currency |-> currency]

(* Money.fromValue(amount, currency = 'COP') *)
MoneyFromValue(amount, currency) == Money(amount, currency)

(* Money.zero(currency = 'COP') *)
MoneyZero == Money(0, "COP")

(* Money.of(amount): the constructor's default currency, 'USD' *)
MoneyOf(amount) == Money(amount, "USD")

(* Money.validateSameCurrency: TRUE when the operation throws *)
validateSameCurrency(a, b) == a.currency # b.currency

(* Money.add: [err, m] *)
MoneyAdd(a, b) ==
    IF validateSameCurrency(a, b)
    THEN [err |-> ErrMonedas, m |-> a]
    ELSE [err |-> OK, m |-> Money(a.amount + b.amount, a.currency)]

(* Money.multiply(factor), for a whole factor *)
MoneyMultiply(a, factor) == Money(a.amount * factor, a.currency)

(* Money.applyDiscount(pct) = multiply(1 - pct/100), for 0 <= pct <= 100 *)
applyDiscount(a, pct) == Money((a.amount * (100 - pct)) \div 100, a.currency)

(* Money.validateAmount: TRUE when it throws, which it does for a value that
   is not a number (or is NaN) and for no number *)
validateAmount(amount) == amount \notin Int

(* Money.validateCurrency: TRUE when it throws; a currency code is '' or one
   of the codes below, of which CodigosValidos have three letters *)
CodigosValidos == {"USD", "COP"}
validateCurrency(currency) == currency = "" \/ currency \notin CodigosValidos

(* new Money(amount, currency): [err, m] *)
MoneyConstructor(amount, currency) ==
    IF validateAmount(amount) THEN [err |-> ErrAmount, m |-> MoneyZero]
    ELSE IF validateCurrency(currency) THEN [err |-> ErrCurrency, m |-> MoneyZero]
    ELSE [err |-> OK, m |-> Money(amount, currency)]

(* Money.subtract: [err, m] *)
MoneySubtract(a, b) ==
    IF validateSameCurrency(a, b) THEN [err |-> ErrMonedas, m |-> a]
    ELSE MoneyConstructor(a.amount - b.amount, a.currency)

(* Money.applyDiscount with its range check: [err, m] *)
MoneyApplyDiscount(a, pct) ==
    IF pct < 0 \/ pct > 100 THEN [err |-> ErrDiscountRange, m |-> a]
    ELSE MoneyConstructor(applyDiscount(a, pct).amount, a.currency)

----------------------------------------------------------------------------
(* Product objects *)

TiposConcretos == {"STANDARD", "DIGITAL", "NATURAL"}

Nada == [tipo |-> "NONE", id |-> 0, nombre |-> "", descripcion |-> "",
         precio |-> MoneyZero, stock |-> 0, descuento |-> 0, updatedAt |-> 0,
         imagenUrl |-> "", tamanoMb |-> 0, destacado |-> FALSE]

(* ProductoNull's constructor arguments; its id is a fresh ProductId *)
NullId == 0
ProductoNull ==
    [tipo |-> "NULL", id |-> NullId, nombre |-> "Producto no disponible",
     descripcion |-> "Este producto no existe o no está disponible",
     precio |-> MoneyZero, stock |-> 0, descuento |-> 0, updatedAt |-> 0,
     imagenUrl |-> "", tamanoMb |-> 0, destacado |-> FALSE]

(* The event records handed to emit *)
ProductoCreatedEvent(id, precio) ==
    [kind |-> "created", id |-> id, campo |-> "", old |-> 0, new |-> precio, change |-> 0]
ProductoStockChangedEvent(id, oldStock, newStock, change) ==
    [kind |-> "stockChanged", id |-> id, campo |-> "stock",
     old |-> oldStock, new |-> newStock, change |-> change]
ProductoUpdatedEvent(id, campo, old, new) ==
    [kind |-> "updated", id |-> id, campo |-> campo, old |-> old, new |-> new, change |-> 0]

(* The override of ProductoNull dropped *)
shouldEmitEvents_Siempre(p) == TRUE

(* AbstractProducto.shouldEmitEvents, overridden by ProductoNull *)
shouldEmitEvents(p) == p.tipo # "NULL"

(* The stock validation dropped *)
validarStock_Nunca(stock) == FALSE

(* AbstractProducto.validarNombre / validarDescripcion / validarStock:
   TRUE when the validation throws.  Names are "" or a short valid name. *)
validarNombre(nombre) == nombre = ""
validarDescripcion(descripcion) == descripcion = ""
validarStock(stock) == stock < 0

(* Producto.validarDescuento, ProductoDigital.validarDescuento *)
validarDescuento(descuento) == descuento < 0 \/ descuento > 100

(* A call's outcome: the receiver after the call, the error thrown (OK when
   none) and the events emitted during it *)
Resultado(p, err, evs) == [p |-> p, err |-> err, evs |-> evs]

(* AbstractProducto.estaDisponible with the overrides of ProductoDigital and
   ProductoNull *)
estaDisponible(p) ==
    CASE p.tipo = "NULL" -> FALSE
      [] p.tipo = "DIGITAL" -> p.stock > 0 \/ p.stock = -1
      [] OTHER -> p.stock > 0

(* calcularPrecioFinal of Producto, ProductoDigital, ProductoNatural and
   ProductoNull *)
calcularPrecioFinal(p) ==
    CASE p.tipo = "NULL" -> MoneyZero
      [] p.tipo = "NATURAL" ->
            MoneyFromValue(p.precio.amount - (p.precio.amount * p.descuento) \div 100,
                           p.precio.currency)
      [] OTHER -> IF p.descuento <= 0 THEN p.precio
                  ELSE applyDiscount(p.precio, p.descuento)

(* The event's change given as the new stock, not the difference *)
setStock_CambioAbsoluto(p, stock, ahora) ==
    IF p.tipo = "NULL" THEN Resultado(p, ErrNuloModificar, <<>>)
    ELSE IF validarStock(stock) THEN Resultado(p, ErrStockNegativo, <<>>)
    ELSE Resultado([p EXCEPT !.stock = stock, !.updatedAt = ahora], OK,
                   <<ProductoStockChangedEvent(p.id, p.stock, stock, stock)>>)

(* AbstractProducto.setStock, overridden by ProductoNull *)
setStock(p, stock, ahora) ==
    IF p.tipo = "NULL" THEN Resultado(p, ErrNuloModificar, <<>>)
    ELSE IF validarStock(stock) THEN Resultado(p, ErrStockNegativo, <<>>)
    ELSE Resultado([p EXCEPT !.stock = stock, !.updatedAt = ahora], OK,
                   <<ProductoStockChangedEvent(p.id, p.stock, stock, stock - p.stock)>>)

(* The check of step 2 dropped / off by one *)
stockInsuficiente_Omitido(cantidad, stock) == FALSE
stockInsuficiente_MasUno(cantidad, stock) == cantidad > stock + 1

(* The check of step 2 of AbstractProducto.reducirStock *)
stockInsuficiente(cantidad, stock) == cantidad > stock

(* ProductoDigital.despuesDeReducirStock; the base hook does nothing *)
despuesDeReducirStock(p, ahora) ==
    IF p.tipo = "DIGITAL" /\ p.stock = -1
    THEN setStock(p, -1, ahora)
    ELSE Resultado(p, OK, <<>>)

(* AbstractProducto.reducirStock, overridden by ProductoNull *)
reducirStock(p, cantidad, ahora) ==
    IF p.tipo = "NULL" THEN Resultado(p, ErrNuloReducir, <<>>)
    ELSE IF cantidad <= 0 THEN Resultado(p, ErrCantidadReducir, <<>>)
    ELSE IF stockInsuficiente(cantidad, p.stock)
         THEN Resultado(p, ErrStockInsuficiente, <<>>)
    ELSE LET reducido == [p EXCEPT !.stock = @ - cantidad]
             hook == despuesDeReducirStock(reducido, ahora)
         IN  IF hook.err # OK THEN hook
             ELSE Resultado([hook.p EXCEPT !.updatedAt = ahora], OK,
                     hook.evs \o <<ProductoStockChangedEvent(p.id, p.stock,
                                                            hook.p.stock, -cantidad)>>)

(* `this.stock = cantidad` for `this.stock += cantidad` *)
aumentarStock_Asigna(p, cantidad, ahora) ==
    IF p.tipo = "NULL" THEN Resultado(p, ErrNuloAumentar, <<>>)
    ELSE IF cantidad <= 0 THEN Resultado(p, ErrCantidadAumentar, <<>>)
    ELSE Resultado([p EXCEPT !.stock = cantidad, !.updatedAt = ahora], OK,
                   <<ProductoStockChangedEvent(p.id, p.stock, cantidad, cantidad)>>)

(* AbstractProducto.aumentarStock, overridden by ProductoNull *)
aumentarStock(p, cantidad, ahora) ==
    IF p.tipo = "NULL" THEN Resultado(p, ErrNuloAumentar, <<>>)
    ELSE IF cantidad <= 0 THEN Resultado(p, ErrCantidadAumentar, <<>>)
    ELSE Resultado([p EXCEPT !.stock = @ + cantidad, !.updatedAt = ahora], OK,
                   <<ProductoStockChangedEvent(p.id, p.stock, p.stock + cantidad, cantidad)>>)

----------------------------------------------------------------------------
(* Setters *)

(* The field written before the validation *)
setNombre_EscribeAntes(p, nombre, ahora) ==
    IF p.tipo = "NULL" THEN Resultado(p, ErrNuloModificar, <<>>)
    ELSE IF validarNombre(nombre)
         THEN Resultado([p EXCEPT !.nombre = nombre], ErrNombreVacio, <<>>)
    ELSE Resultado([p EXCEPT !.nombre = nombre, !.updatedAt = ahora], OK,
                   IF shouldEmitEvents(p)
                   THEN <<ProductoUpdatedEvent(p.id, "nombre", p.nombre, nombre)>>
                   ELSE <<>>)

(* AbstractProducto.setNombre, overridden by ProductoNull *)
setNombre(p, nombre, ahora) ==
    IF p.tipo = "NULL" THEN Resultado(p, ErrNuloModificar, <<>>)
    ELSE IF validarNombre(nombre) THEN Resultado(p, ErrNombreVacio, <<>>)
    ELSE Resultado([p EXCEPT !.nombre = nombre, !.updatedAt = ahora], OK,
                   IF shouldEmitEvents(p)
                   THEN <<ProductoUpdatedEvent(p.id, "nombre", p.nombre, nombre)>>
                   ELSE <<>>)

(* AbstractProducto.setDescripcion, overridden by ProductoNull *)
setDescripcion(p, descripcion, ahora) ==
    IF p.tipo = "NULL" THEN Resultado(p, ErrNuloModificar, <<>>)
    ELSE IF validarDescripcion(descripcion) THEN Resultado(p, ErrDescripcionVacia, <<>>)
    ELSE Resultado([p EXCEPT !.descripcion = descripcion, !.updatedAt = ahora], OK,
                   IF shouldEmitEvents(p)
                   THEN <<ProductoUpdatedEvent(p.id, "descripcion", p.descripcion,
                                               descripcion)>>
                   ELSE <<>>)

(* The setter with its emit dropped *)
setPrecio_SinEvento(p, precio, ahora) ==
    IF p.tipo = "NULL" THEN Resultado(p, ErrNuloModificar, <<>>)
    ELSE Resultado([p EXCEPT !.precio = precio, !.updatedAt = ahora], OK, <<>>)

(* AbstractProducto.setPrecio, overridden by ProductoNull: no validation *)
setPrecio(p, precio, ahora) ==
    IF p.tipo = "NULL" THEN Resultado(p, ErrNuloModificar, <<>>)
    ELSE Resultado([p EXCEPT !.precio = precio, !.updatedAt = ahora], OK,
                   IF shouldEmitEvents(p)
                   THEN <<ProductoUpdatedEvent(p.id, "precio", p.precio.amount,
                                               precio.amount)>>
                   ELSE <<>>)

(* AbstractProducto.setImagenUrl, overridden by ProductoNull: no validation *)
setImagenUrl(p, imagenUrl, ahora) ==
    IF p.tipo = "NULL" THEN Resultado(p, ErrNuloModificar, <<>>)
    ELSE Resultado([p EXCEPT !.imagenUrl = imagenUrl, !.updatedAt = ahora], OK,
                   IF shouldEmitEvents(p)
                   THEN <<ProductoUpdatedEvent(p.id, "imagenUrl", p.imagenUrl, imagenUrl)>>
                   ELSE <<>>)

(* ProductoNatural.actualizarProducto: updatedAt = new Date(), then
   emitProductoActualizado(..., 'updatedAt', oldUpdatedAt, this.updatedAt) *)
actualizarProducto(p, ahora) ==
    Resultado([p EXCEPT !.updatedAt = ahora], OK,
              <<ProductoUpdatedEvent(p.id, "updatedAt", p.updatedAt, ahora)>>)

(* setDescuento of Producto and ProductoDigital (validarDescuento, then the
   'descuento' event) and of ProductoNatural (the range check, then
   actualizarProducto).  ProductoNull has no such method. *)
setDescuento(p, descuento, ahora) ==
    IF validarDescuento(descuento) THEN Resultado(p, ErrDescuento, <<>>)
    ELSE IF p.tipo = "NATURAL"
         THEN actualizarProducto([p EXCEPT !.descuento = descuento], ahora)
    ELSE Resultado([p EXCEPT !.descuento = descuento, !.updatedAt = ahora], OK,
                   IF shouldEmitEvents(p)
                   THEN <<ProductoUpdatedEvent(p.id, "descuento", p.descuento, descuento)>>
                   ELSE <<>>)

(* ProductoDigital.setTamanoMb: validarTamano, then the 'tamanoMb' event *)
setTamanoMb(p, tamanoMb, ahora) ==
    IF tamanoMb < 0 THEN Resultado(p, ErrTamano, <<>>)
    ELSE Resultado([p EXCEPT !.tamanoMb = tamanoMb, !.updatedAt = ahora], OK,
                   IF shouldEmitEvents(p)
                   THEN <<ProductoUpdatedEvent(p.id, "tamanoMb", p.tamanoMb, tamanoMb)>>
                   ELSE <<>>)

(* setDestacado of Producto (no validation, the 'destacado' event) and of
   ProductoNatural (the assignment, then actualizarProducto) *)
setDestacado(p, destacado, ahora) ==
    IF p.tipo = "NATURAL"
    THEN actualizarProducto([p EXCEPT !.destacado = destacado], ahora)
    ELSE Resultado([p EXCEPT !.destacado = destacado, !.updatedAt = ahora], OK,
                   IF shouldEmitEvents(p)
                   THEN <<ProductoUpdatedEvent(p.id, "destacado", p.destacado, destacado)>>
                   ELSE <<>>)

----------------------------------------------------------------------------
(* PrecioProductoVisitor *)

(* The constructor's default arguments *)
impuestoGeneralPorDefecto == 21
impuestoDigitalPorDefecto == 10

(* new PrecioProductoVisitor(impuestoGeneral, impuestoDigital) *)
PrecioProductoVisitor(impuestoGeneral, impuestoDigital) ==
    [impuestoGeneral |-> impuestoGeneral, impuestoDigital |-> impuestoDigital]

(* amount * (1 + impuesto / 100), in cents; the inputs are drawn so that the
   product is a whole number of cents *)
conImpuesto(m, impuesto) == MoneyFromValue((m.amount * (100 + impuesto)) \div 100, m.currency)

(* PrecioProductoVisitor.visitProductoEstandar *)
visitProductoEstandar(v, p) == conImpuesto(calcularPrecioFinal(p), v.impuestoGeneral)

(* The general rate applied to digital products *)
visitProductoDigital_General(v, p) == conImpuesto(calcularPrecioFinal(p), v.impuestoGeneral)

(* PrecioProductoVisitor.visitProductoDigital *)
visitProductoDigital(v, p) == conImpuesto(calcularPrecioFinal(p), v.impuestoDigital)

(* PrecioProductoVisitor.visitProductoNull *)
visitProductoNull(v, p) == MoneyZero

(* accept(visitor) of Producto, ProductoDigital, ProductoNull and
   ProductoNatural, for a PrecioProductoVisitor: [err, m].  ProductoNatural
   calls visitor.visitProductoNatural(this), a method PrecioProductoVisitor
   does not have: the call throws a TypeError. *)
accept(p, v) ==
    CASE p.tipo = "STANDARD" -> [err |-> OK, m |-> visitProductoEstandar(v, p)]
      [] p.tipo = "DIGITAL" -> [err |-> OK, m |-> visitProductoDigital(v, p)]
      [] p.tipo = "NULL" -> [err |-> OK, m |-> visitProductoNull(v, p)]
      [] OTHER -> [err |-> ErrVisitNatural, m |-> MoneyZero]

----------------------------------------------------------------------------
(* Construction *)

(* The constructor arguments: datos.tipo selects the class; tamanoMb is read
   by ProductoDigital only, ingredientes and beneficios (their lengths) by
   ProductoNatural only; imagenUrl is '', as ProductoNull and the Factory
   (data.imagenUrl || '') pass it *)
Datos(tipo, id, nombre, descripcion, precio, stock, descuento, updatedAt, extra) ==
    [tipo |-> tipo, id |-> id, nombre |-> nombre, descripcion |-> descripcion,
     precio |-> precio, stock |-> stock, descuento |-> descuento,
     updatedAt |-> updatedAt, imagenUrl |-> "", extra |-> extra]

(* The fields of the object; tamanoMb is a field of ProductoDigital only,
   destacado is the constructors' default argument, false *)
Campos(d) ==
    [tipo |-> d.tipo, id |-> d.id, nombre |-> d.nombre, descripcion |-> d.descripcion,
     precio |-> d.precio, stock |-> d.stock, descuento |-> d.descuento,
     updatedAt |-> d.updatedAt, imagenUrl |-> d.imagenUrl,
     tamanoMb |-> IF d.tipo = "DIGITAL" THEN d.extra[1] ELSE 0, destacado |-> FALSE]

(* AbstractProducto's constructor: the three validations, then the created
   event.  Resultado.p is Nada when it throws. *)
AbstractProductoConstructor(d) ==
    IF validarNombre(d.nombre) THEN Resultado(Nada, ErrNombreVacio, <<>>)
    ELSE IF validarDescripcion(d.descripcion) THEN Resultado(Nada, ErrDescripcionVacia, <<>>)
    ELSE IF validarStock(d.stock) THEN Resultado(Nada, ErrStockNegativo, <<>>)
    ELSE Resultado(Campos(d), OK,
                   IF shouldEmitEvents(d)
                   THEN <<ProductoCreatedEvent(d.id, d.precio.amount)>> ELSE <<>>)

(* The validations a subclass constructor runs after super() returns:
   Producto: validarDescuento; ProductoDigital: validarDescuento, validarTamano;
   ProductoNatural: validarIngredientes, validarBeneficios.
   extra = <<tamanoMb, ingredientes.length, beneficios.length>> *)
validacionSubclase(d) ==
    CASE d.tipo = "STANDARD" -> IF validarDescuento(d.descuento) THEN ErrDescuento ELSE OK
      [] d.tipo = "DIGITAL" ->
            IF validarDescuento(d.descuento) THEN ErrDescuento
            ELSE IF d.extra[1] < 0 THEN ErrTamano ELSE OK
      [] d.tipo = "NATURAL" ->
            IF d.extra[2] = 0 THEN ErrIngredientes
            ELSE IF d.extra[3] = 0 THEN ErrBeneficios ELSE OK
      [] OTHER -> OK

(* new Producto(...), new ProductoDigital(...), new ProductoNatural(...) *)
NuevoProducto(d) ==
    LET base == AbstractProductoConstructor(d)
    IN  IF base.err # OK THEN base
        ELSE LET sub == validacionSubclase(d)
             IN  IF sub # OK THEN Resultado(Nada, sub, base.evs) ELSE base

(* ProductoBuilder.build / ProductoDigitalBuilder.build: the required-field
   checks, then the constructor.  categoria and url are the builder's
   categoriaId and urlDescarga ("" when never set). *)
BuilderBuild(d, categoria, url) ==
    IF d.nombre = "" THEN Resultado(Nada, ErrNombreObligatorio, <<>>)
    ELSE IF d.descripcion = "" THEN Resultado(Nada, ErrDescripcionObligatoria, <<>>)
    ELSE IF categoria = "" THEN Resultado(Nada, ErrCategoriaObligatoria, <<>>)
    ELSE IF d.tipo = "DIGITAL" /\ url = "" THEN Resultado(Nada, ErrUrlObligatoria, <<>>)
    ELSE NuevoProducto(d)

(* ProductoDigitalBuilder's constructor: this.stock = -1 *)
StockIlimitado == -1

(* ProductoNull.getInstance(): the instance, constructed on the first call by
   ProductoNull's constructor through AbstractProducto's; instancia is Nada
   before the first call *)
getInstance(instancia, ahora) ==
    IF instancia.tipo = "NONE"
    THEN AbstractProductoConstructor(
             [ProductoNull EXCEPT !.updatedAt = ahora] @@ [extra |-> <<0, 0, 0>>])
    ELSE Resultado(instancia, OK, <<>>)

----------------------------------------------------------------------------
(* CarritoCompras *)

(* Map.delete *)
MapDelete(m, k) == [j \in DOMAIN m \ {k} |-> m[j]]

(* Map.set *)
MapSet(m, k, v) == [j \in DOMAIN m \cup {k} |-> IF j = k THEN v ELSE m[j]]

CarritoItem(ref, cantidad) == [producto |-> ref, cantidad |-> cantidad]

(* `itemExistente?.cantidad || 0` *)
cantidadExistente(its, id) ==
    IF id \in DOMAIN its /\ its[id].cantidad # 0 THEN its[id].cantidad ELSE 0

(* `>` for `>=` in the capacity check *)
limiteExcedido_Mayor(its, id) ==
    id \notin DOMAIN its /\ Cardinality(DOMAIN its) > maxItemsPermitidos

(* The capacity check of agregarProducto *)
limiteExcedido(its, id) ==
    id \notin DOMAIN its /\ Cardinality(DOMAIN its) >= maxItemsPermitidos

(* The availability check made for new lines only *)
agregarProducto_SoloNuevos(its, ref, p, cantidad) ==
    IF ~estaDisponible(p) /\ p.id \notin DOMAIN its
    THEN [items |-> its, err |-> ErrNoDisponible]
    ELSE IF (p.id \notin DOMAIN its /\ Cardinality(DOMAIN its) >= maxItemsPermitidos) THEN [items |-> its, err |-> ErrMaxItems]
    ELSE [items |-> [j \in DOMAIN its \cup {p.id} |->
                        IF j = p.id
                        THEN [producto |-> ref,
                              cantidad |-> (IF p.id \in DOMAIN its THEN its[p.id].cantidad ELSE 0)
                                           + cantidad]
                        ELSE its[j]],
          err |-> OK]

(* CarritoCompras.agregarProducto(producto, cantidad): ref is the reference
   passed, p the object behind it.  [items, err] *)
agregarProducto(its, ref, p, cantidad) ==
    IF ~estaDisponible(p) THEN [items |-> its, err |-> ErrNoDisponible]
    ELSE LET nuevaCantidad == cantidadExistente(its, p.id) + cantidad
         IN  IF limiteExcedido(its, p.id) THEN [items |-> its, err |-> ErrMaxItems]
             ELSE [items |-> MapSet(its, p.id, CarritoItem(ref, nuevaCantidad)),
                   err |-> OK]

(* CarritoCompras.eliminarProducto(productoId) *)
eliminarProducto(its, id) == MapDelete(its, id)

(* The availability check made before the `cantidad <= 0` branch *)
actualizarCantidad_DisponibleAntes(its, objs, id, cantidad) ==
    IF id \notin DOMAIN its THEN [items |-> its, err |-> ErrNoEnCarrito]
    ELSE IF ~estaDisponible(objs[its[id].producto])
         THEN [items |-> its, err |-> ErrNoDisponible]
    ELSE IF cantidad <= 0
         THEN [items |-> [j \in DOMAIN its \ {id} |-> its[j]], err |-> OK]
    ELSE [items |-> [its EXCEPT ![id].cantidad = cantidad], err |-> OK]

(* The availability check dropped *)
actualizarCantidad_SinComprobar(its, objs, id, cantidad) ==
    IF id \notin DOMAIN its THEN [items |-> its, err |-> ErrNoEnCarrito]
    ELSE IF cantidad <= 0 THEN [items |-> MapDelete(its, id), err |-> OK]
    ELSE [items |-> MapSet(its, id, [its[id] EXCEPT !.cantidad = cantidad]),
          err |-> OK]

(* CarritoCompras.actualizarCantidad(productoId, cantidad); objs gives the
   object behind each reference.  [items, err] *)
actualizarCantidad(its, objs, id, cantidad) ==
    IF id \notin DOMAIN its THEN [items |-> its, err |-> ErrNoEnCarrito]
    ELSE IF cantidad <= 0 THEN [items |-> eliminarProducto(its, id), err |-> OK]
    ELSE IF ~estaDisponible(objs[its[id].producto])
         THEN [items |-> its, err |-> ErrNoDisponible]
    ELSE [items |-> MapSet(its, id, [its[id] EXCEPT !.cantidad = cantidad]),
          err |-> OK]

(* The accumulator calcularTotal starts from: Money.zero() *)
totalInicial == MoneyZero

(* The loop of CarritoCompras.calcularTotal over the lines ids, from the
   accumulator total: [err, m].  Money.add throws on the first line whose
   currency differs from the accumulator's; the sum does not depend on the
   order of the lines. *)
RECURSIVE sumarLineas(_, _, _, _)
sumarLineas(its, objs, ids, total) ==
    IF ids = {} THEN [err |-> OK, m |-> total]
    ELSE LET id == CHOOSE j \in ids : \A k \in ids : j <= k
             precioItem == MoneyMultiply(calcularPrecioFinal(objs[its[id].producto]),
                                         its[id].cantidad)
             suma == MoneyAdd(total, precioItem)
         IN  IF suma.err # OK THEN suma
             ELSE sumarLineas(its, objs, ids \ {id}, suma.m)

(* CarritoCompras.calcularTotal() *)
calcularTotal(its, objs) == sumarLineas(its, objs, DOMAIN its, totalInicial)

(* The CarritoServiceImpl objects of the program *)
Servicios == {"s1", "s2"}

(* Before any call: CarritoCompras.instance is undefined (0), no
   CarritoCompras object exists, no CarritoServiceImpl has been constructed
   (carrito 0).  A CarritoCompras object is its items Map; its identity is
   its index in carritos. *)
SinCarro ==
    [instance |-> 0, carritos |-> <<>>, carrito |-> [s \in Servicios |-> 0]]

(* A new CarritoCompras object on every call *)
CarritoComprasGetInstance_SiempreNuevo(c) ==
    [c EXCEPT !.instance = Len(c.carritos) + 1, !.carritos = Append(@, <<>>)]

(* CarritoCompras.getInstance(): the instance is constructed, with an empty
   items Map, when the static field holds none; c.instance is what the call
   returns *)
CarritoComprasGetInstance(c) ==
    IF c.instance = 0
    THEN [c EXCEPT !.instance = Len(c.carritos) + 1, !.carritos = Append(@, <<>>)]
    ELSE c

(* new CarritoServiceImpl(), bound to s: this.carrito = CarritoCompras.getInstance() *)
CarritoServiceImpl(c, s) ==
    LET g == CarritoComprasGetInstance(c)
    IN  [g EXCEPT !.carrito[s] = g.instance]

(* The items of the CarritoCompras object behind this.carrito of service s *)
itemsDe(c, s) == c.carritos[c.carrito[s]]

----------------------------------------------------------------------------
(* Inputs *)

NullRef == 0
RefsVariables == {1, 2}
RefsRelleno == 3..(2 + NumRelleno)
Refs == {NullRef} \cup RefsVariables \cup RefsRelleno

NombreValido == "Laptop"
DescripcionValida == "Laptop de alto rendimiento"
CategoriaValida == "electronica"
UrlValida == "https://descargas/e-book"
(* tamanoMb, ingredientes.length, beneficios.length *)
ExtraValido == <<0, 1, 1>>

Stocks == -2..MaxStock
Cantidades == -1..MaxCantidad
Precios == {Money(1000, "USD"), Money(500, "COP")}

(* Constructor arguments that pass every validation *)
DatosValidos(r) ==
    { Datos(tipo, r, NombreValido, DescripcionValida, precio, stock, descuento, 0,
            ExtraValido) :
        tipo \in TiposConcretos, precio \in Precios, stock \in 0..MaxStock,
        descuento \in {0, 50} }

(* d with one argument replaced by an invalid one *)
ConFalta(d) ==
    { [d EXCEPT !.nombre = ""], [d EXCEPT !.descripcion = ""],
      [d EXCEPT !.stock = -1], [d EXCEPT !.stock = -2],
      [d EXCEPT !.descuento = -1], [d EXCEPT !.descuento = 101],
      [d EXCEPT !.extra = <<-1, 1, 1>>], [d EXCEPT !.extra = <<0, 0, 1>>],
      [d EXCEPT !.extra = <<0, 1, 0>>] }

DatosConFalta(r) ==
    UNION { ConFalta(Datos(tipo, r, NombreValido, DescripcionValida, Money(1000, "USD"),
                           1, 0, 0, ExtraValido)) : tipo \in TiposConcretos }

(* The builder's required fields: all set, or one of them left empty *)
CamposBuilder ==
    { <<NombreValido, DescripcionValida, CategoriaValida, UrlValida>>,
      <<"", DescripcionValida, CategoriaValida, UrlValida>>,
      <<NombreValido, "", CategoriaValida, UrlValida>>,
      <<NombreValido, DescripcionValida, "", UrlValida>>,
      <<NombreValido, DescripcionValida, CategoriaValida, "">> }

Llamada(op, ref, arg, err, ret) ==
    [op |-> op, ref |-> ref, arg |-> arg, err |-> err, ret |-> ret]

SinLlamada == Llamada("init", 0, 0, OK, MoneyZero)

(* A reducirStock call: its argument, the receiver, the receiver's stock
   before it and its outcome *)
Reduccion(ref, cantidad, stock, err) ==
    [hay |-> TRUE, ref |-> ref, cantidad |-> cantidad, stock |-> stock, err |-> err]

SinReduccion == [hay |-> FALSE, ref |-> 0, cantidad |-> 0, stock |-> 0, err |-> OK]

Existe(r) == objetos[r].tipo # "NONE"

----------------------------------------------------------------------------
(* ProductoServiceImpl over a ProductoRepository.  The outcome of
   repository.findById is hallado = [err, ref]: the promise rejects with err,
   or (err = OK) resolves to the object ref.  repository.update resolves to
   the product it is passed. *)

(* ProductId.validateId: TRUE when it throws *)
validateId(id) == id = ""

(* The rejected promise passed on *)
getProductoById_Rechaza(hallado) == hallado

(* ProductoServiceImpl.getProductoById: [err, ref], the promise it returns *)
getProductoById(hallado) ==
    IF hallado.err # OK THEN [err |-> OK, ref |-> NullRef] ELSE hallado

(* ProductoServiceImpl.updateStock(id, cantidad): the product found after the
   call, the error the promise rejects with (OK when it resolves), the events
   emitted and the arguments of the repository.update calls *)
updateStock(objs, hallado, id, cantidad, ahora) ==
    LET producto == objs[hallado.ref]
        sinCambio(err) == [p |-> producto, err |-> err, evs |-> <<>>, update |-> <<>>]
    IN  IF validateId(id) THEN sinCambio(ErrIdVacio)
        ELSE IF hallado.err # OK THEN sinCambio(hallado.err)
        ELSE IF producto.tipo = "NULL" THEN sinCambio(ErrNoEncontrado)
        ELSE LET res == IF cantidad > 0 THEN aumentarStock(producto, cantidad, ahora)
                        ELSE IF cantidad < 0 THEN reducirStock(producto, -cantidad, ahora)
                        ELSE Resultado(producto, OK, <<>>)
             IN  [p |-> res.p, err |-> res.err, evs |-> res.evs,
                  update |-> IF res.err = OK THEN <<hallado.ref>> ELSE <<>>]

(* An UpdateProductoDTO: each field is <<>> when undefined, <<value>> when
   given *)
UpdateProductoDTO(nombre, descripcion, precio, stock, imagenUrl, descuento, destacado) ==
    [nombre |-> nombre, descripcion |-> descripcion, precio |-> precio, stock |-> stock,
     imagenUrl |-> imagenUrl, descuento |-> descuento, destacado |-> destacado]

(* The next statement of a method after the statements that gave res: it is
   not reached when one of them threw; otherwise its outcome s follows, the
   events already emitted staying emitted *)
Sigue(res, s) ==
    IF res.err # OK THEN res ELSE Resultado(s.p, s.err, res.evs \o s.evs)

(* ProductoServiceImpl.updateProducto(id, productoData): the setters of the
   fields given, one after the other on the product found, then
   repository.update; descuento and destacado only for an instance of
   Producto *)
updateProducto(objs, hallado, id, data, ahora) ==
    LET producto == objs[hallado.ref]
        sinCambio(err) == [p |-> producto, err |-> err, evs |-> <<>>, update |-> <<>>]
        r0 == Resultado(producto, OK, <<>>)
        r1 == IF data.nombre = <<>> THEN r0
              ELSE Sigue(r0, setNombre(r0.p, data.nombre[1], ahora))
        r2 == IF data.descripcion = <<>> THEN r1
              ELSE Sigue(r1, setDescripcion(r1.p, data.descripcion[1], ahora))
        r3 == IF data.precio = <<>> THEN r2
              ELSE Sigue(r2, setPrecio(r2.p, MoneyOf(data.precio[1]), ahora))
        r4 == IF data.stock = <<>> THEN r3
              ELSE Sigue(r3, setStock(r3.p, data.stock[1], ahora))
        r5 == IF data.imagenUrl = <<>> THEN r4
              ELSE Sigue(r4, setImagenUrl(r4.p, data.imagenUrl[1], ahora))
        r6 == IF producto.tipo # "STANDARD" \/ data.descuento = <<>> THEN r5
              ELSE Sigue(r5, setDescuento(r5.p, data.descuento[1], ahora))
        r7 == IF producto.tipo # "STANDARD" \/ data.destacado = <<>> THEN r6
              ELSE Sigue(r6, setDestacado(r6.p, data.destacado[1], ahora))
    IN  IF validateId(id) THEN sinCambio(ErrIdVacio)
        ELSE IF hallado.err # OK THEN sinCambio(hallado.err)
        ELSE IF producto.tipo = "NULL" THEN sinCambio(ErrNoEncontrado)
        ELSE [p |-> r7.p, err |-> r7.err, evs |-> r7.evs,
              update |-> IF r7.err = OK THEN <<hallado.ref>> ELSE <<>>]

----------------------------------------------------------------------------
(* ProductoEventEmitter *)

(* ProductoEventEmitter.subscribe: this.handlers.push(handler) *)
subscribe(hs, h) == Append(hs, h)

(* ProductoEventEmitter.unsubscribe: this.handlers.filter(h => h !== handler) *)
unsubscribe(hs, h) == SelectSeq(hs, LAMBDA x : x # h)

(* The handlers: h1 and h2 return, falla throws ErrHandler *)
Handlers == {"h1", "h2", "falla"}
HandlersQueFallan == {"falla"}

(* ProductoEventEmitter.emit, for the events evs an operation emits one after
   the other, when no handler throws: each emit calls every handler of hs in
   order before it returns.  The invocations, in order, as [handler, evento]. *)
Invocaciones(hs, evs) ==
    IF Len(hs) = 0 THEN <<>>
    ELSE [k \in 1..(Len(evs) * Len(hs)) |->
            [handler |-> hs[((k - 1) % Len(hs)) + 1],
             evento |-> evs[((k - 1) \div Len(hs)) + 1]]]

(* forEach(handler => handler(event)) has no try/catch: the first handler that
   throws ends the loop, and its error leaves emit and the operation that
   called it.  The invocations actually made. *)
Entregar(hs, evs) ==
    LET todas == Invocaciones(hs, evs)
        fallan == {k \in 1..Len(todas) : todas[k].handler \in HandlersQueFallan}
    IN  IF fallan = {} THEN todas
        ELSE SubSeq(todas, 1, CHOOSE k \in fallan : \A j \in fallan : k <= j)

(* TRUE when an emit of the operation throws *)
emitFalla(hs, evs) ==
    \E k \in 1..Len(Invocaciones(hs, evs)) :
        Invocaciones(hs, evs)[k].handler \in HandlersQueFallan

(* The error an operation ends with: its own, or the one a handler threw in
   an emit of the operation *)
errTrasEmitir(hs, res) ==
    IF emitFalla(hs, res.evs) /\ res.err = OK THEN ErrHandler ELSE res.err

(* The events an operation emits reach the emitter during the operation *)
Emitir(evs) ==
    /\ eventos' = evs
    /\ entregas' = Entregar(handlers, evs)

----------------------------------------------------------------------------
(* Actions on products *)

(* new Producto / ProductoDigital / ProductoNatural, bound to reference r;
   updatedAt is the default argument, new Date().  No object results when a
   handler throws in the constructor's emit. *)
Construir(r) ==
    \E d0 \in DatosValidos(r) \cup DatosConFalta(r) :
        LET d == [d0 EXCEPT !.updatedAt = reloj]
            res == NuevoProducto(d)
        IN  /\ objetos' = [objetos EXCEPT ![r] = IF emitFalla(handlers, res.evs)
                                                  THEN Nada ELSE res.p]
            /\ Emitir(res.evs)
            /\ ultimo' = Llamada("new", r, d.stock, errTrasEmitir(handlers, res), MoneyZero)
            /\ reduccion' = SinReduccion
            /\ UNCHANGED <<carro, items, reloj, handlers, actualizados>>

(* ProductoDigital.builder()...build(): stock is the builder's default,
   StockIlimitado, unless withStock set it *)
BuildDigital(r) ==
    \E campos \in CamposBuilder, precio \in Precios,
       stock \in {StockIlimitado} \cup (0..MaxStock) :
        LET d == Datos("DIGITAL", r, campos[1], campos[2], precio, stock, 0,
                       reloj, ExtraValido)
            res == BuilderBuild(d, campos[3], campos[4])
        IN  /\ objetos' = [objetos EXCEPT ![r] = IF emitFalla(handlers, res.evs)
                                                  THEN Nada ELSE res.p]
            /\ Emitir(res.evs)
            /\ ultimo' = Llamada("build", r, stock, errTrasEmitir(handlers, res), MoneyZero)
            /\ reduccion' = SinReduccion
            /\ UNCHANGED <<carro, items, reloj, handlers, actualizados>>

SetStock(r) ==
    /\ Existe(r)
    /\ \E stock \in Stocks :
        LET res == setStock(objetos[r], stock, reloj)
        IN  /\ objetos' = [objetos EXCEPT ![r] = res.p]
            /\ Emitir(res.evs)
            /\ ultimo' = Llamada("setStock", r, stock, errTrasEmitir(handlers, res), MoneyZero)
            /\ reduccion' = SinReduccion
            /\ UNCHANGED <<carro, items, reloj, handlers, actualizados>>

ReducirStock(r, cantidades) ==
    /\ Existe(r)
    /\ \E cantidad \in cantidades :
        LET res == reducirStock(objetos[r], cantidad, reloj)
        IN  /\ objetos' = [objetos EXCEPT ![r] = res.p]
            /\ Emitir(res.evs)
            /\ ultimo' = Llamada("reducirStock", r, cantidad, errTrasEmitir(handlers, res), MoneyZero)
            /\ reduccion' = Reduccion(r, cantidad, objetos[r].stock, res.err)
            /\ UNCHANGED <<carro, items, reloj, handlers, actualizados>>

AumentarStock(r, cantidades) ==
    /\ Existe(r)
    /\ \E cantidad \in cantidades :
        /\ objetos[r].stock + cantidad <= MaxStock
        /\ LET res == aumentarStock(objetos[r], cantidad, reloj)
           IN  /\ objetos' = [objetos EXCEPT ![r] = res.p]
               /\ Emitir(res.evs)
               /\ ultimo' = Llamada("aumentarStock", r, cantidad, errTrasEmitir(handlers, res), MoneyZero)
               /\ reduccion' = IF ultimo.op = "reducirStock" /\ ultimo.ref = r
                               THEN reduccion ELSE SinReduccion
               /\ UNCHANGED <<carro, items, reloj, handlers, actualizados>>

(* Time passes between two calls *)
Tick ==
    /\ reloj < MaxReloj
    /\ reloj' = reloj + 1
    /\ UNCHANGED <<carro, objetos, items, eventos, ultimo, reduccion, handlers, entregas, actualizados>>

----------------------------------------------------------------------------
(* The product lifecycle: one product reference and the Null product *)

SinObjetos == [r \in Refs |-> IF r = NullRef THEN ProductoNull ELSE Nada]

Init ==
    /\ objetos = SinObjetos
    /\ items = <<>>
    /\ reloj = 0
    /\ eventos = <<>>
    /\ ultimo = SinLlamada
    /\ reduccion = SinReduccion
    /\ handlers = <<>>
    /\ entregas = <<>>
    /\ actualizados = <<>>
    /\ carro = SinCarro

Next ==
    \/ Construir(1)
    \/ BuildDigital(1)
    \/ \E r \in {NullRef, 1} : SetStock(r)
    \/ \E r \in {NullRef, 1} : ReducirStock(r, Cantidades \cup {MaxStock + 1})
    \/ \E r \in {NullRef, 1} : AumentarStock(r, Cantidades)
    \/ Tick

Spec == Init /\ [][Next]_vars

----------------------------------------------------------------------------
(* Actions on the cart *)

AgregarProducto(r) ==
    /\ Existe(r)
    /\ \E cantidad \in IF r \in RefsRelleno THEN {1} ELSE Cantidades :
        LET res == agregarProducto(items, r, objetos[r], cantidad)
        IN  /\ cantidadExistente(items, objetos[r].id) + cantidad <= MaxCantidad
            /\ cantidadExistente(items, objetos[r].id) + cantidad >= -1
            /\ items' = res.items
            /\ Emitir(<<>>)
            /\ ultimo' = Llamada("agregarProducto", r, cantidad, res.err, MoneyZero)
            /\ reduccion' = SinReduccion
            /\ UNCHANGED <<carro, objetos, reloj, handlers, actualizados>>

EliminarProducto(id) ==
    /\ items' = eliminarProducto(items, id)
    /\ Emitir(<<>>)
    /\ ultimo' = Llamada("eliminarProducto", id, 0, OK, MoneyZero)
    /\ reduccion' = SinReduccion
    /\ UNCHANGED <<carro, objetos, reloj, handlers, actualizados>>

ActualizarCantidad(id) ==
    \E cantidad \in Cantidades :
        LET res == actualizarCantidad(items, objetos, id, cantidad)
        IN  /\ items' = res.items
            /\ Emitir(<<>>)
            /\ ultimo' = Llamada("actualizarCantidad", id, cantidad, res.err, MoneyZero)
            /\ reduccion' = SinReduccion
            /\ UNCHANGED <<carro, objetos, reloj, handlers, actualizados>>

CalcularTotal ==
    LET res == calcularTotal(items, objetos)
    IN  /\ Emitir(<<>>)
        /\ ultimo' = Llamada("calcularTotal", 0, 0, res.err,
                             IF res.err = OK THEN res.m ELSE MoneyZero)
        /\ reduccion' = SinReduccion
        /\ UNCHANGED <<carro, objetos, items, reloj, handlers, actualizados>>

(* CarritoCompras.vaciar() *)
Vaciar ==
    /\ items' = <<>>
    /\ Emitir(<<>>)
    /\ ultimo' = Llamada("vaciar", 0, 0, OK, MoneyZero)
    /\ reduccion' = SinReduccion
    /\ UNCHANGED <<carro, objetos, reloj, handlers, actualizados>>

----------------------------------------------------------------------------
(* The cart over a catalogue.  References 1 and 2 are added, updated and
   removed with every quantity, and the stock of 1 changes while it is a line
   of the cart; the others are interchangeable single-unit products, added
   with quantity 1 in ascending order and removed in descending order. *)

(* ProductoFactory.crearProducto leaves the price in 'USD' unless data.moneda
   is given; product id = reference *)
DatosCatalogo(r) ==
    CASE r = 1 -> Datos("DIGITAL", 1, "E-book", "Libro digital", MoneyFromValue(1000, "USD"),
                        1, 0, 0, ExtraValido)
      [] r = 2 -> Datos("STANDARD", 2, NombreValido, DescripcionValida,
                        MoneyFromValue(1000, "COP"), 1, 0, 0, ExtraValido)
      [] r = 3 -> Datos("NATURAL", 3, "Aceite esencial", "Aceite esencial de clavo",
                        MoneyFromValue(500, "COP"), 1, 50, 0, ExtraValido)
      [] OTHER -> Datos("STANDARD", r, NombreValido, DescripcionValida,
                        MoneyFromValue(1000, "COP"), 1, 0, 0, ExtraValido)

Catalogo ==
    [r \in Refs |-> IF r = NullRef THEN ProductoNull ELSE NuevoProducto(DatosCatalogo(r)).p]

InitCarrito ==
    /\ objetos = Catalogo
    /\ items = <<>>
    /\ reloj = 0
    /\ eventos = <<>>
    /\ ultimo = SinLlamada
    /\ reduccion = SinReduccion
    /\ handlers = <<>>
    /\ entregas = <<>>
    /\ actualizados = <<>>
    /\ carro = SinCarro

(* The interchangeable product that may be added next / removed next *)
SiguienteRelleno ==
    { r \in RefsRelleno : r \notin DOMAIN items /\ \A q \in RefsRelleno : q < r => q \in DOMAIN items }
UltimoRelleno ==
    { r \in RefsRelleno : r \in DOMAIN items /\ \A q \in RefsRelleno : q > r => q \notin DOMAIN items }

NextCarrito ==
    \/ \E r \in {NullRef} \cup RefsVariables \cup SiguienteRelleno : AgregarProducto(r)
    \/ \E id \in RefsVariables \cup UltimoRelleno : EliminarProducto(id)
    \/ \E id \in {NullId} \cup RefsVariables : ActualizarCantidad(id)
    \/ CalcularTotal
    \/ Vaciar
    \/ ReducirStock(1, {1})
    \/ AumentarStock(1, {1})

SpecCarrito == InitCarrito /\ [][NextCarrito]_vars

----------------------------------------------------------------------------
(* reducirStock, aumentarStock and setStock as methods of a ProductoDigital
   whose stock field holds any value of its documented domain: 0..MaxStock,
   or StockIlimitado ("stock = -1 (ilimitado)") *)

InitIlimitado ==
    /\ \E stock \in {StockIlimitado} \cup (0..MaxStock), precio \in Precios,
          descuento \in {0, 50} :
          objetos = [SinObjetos EXCEPT ![1] =
                        Campos(Datos("DIGITAL", 1, "E-book", "Libro digital", precio,
                                     stock, descuento, 0, ExtraValido))]
    /\ items = <<>>
    /\ reloj = 0
    /\ eventos = <<>>
    /\ ultimo = SinLlamada
    /\ reduccion = SinReduccion
    /\ handlers = <<>>
    /\ entregas = <<>>
    /\ actualizados = <<>>
    /\ carro = SinCarro

NextIlimitado ==
    \/ SetStock(1)
    \/ ReducirStock(1, Cantidades \cup {MaxStock + 1})
    \/ AumentarStock(1, Cantidades)
    \/ Tick

SpecIlimitado == InitIlimitado /\ [][NextIlimitado]_vars

----------------------------------------------------------------------------
(* The setters and stock operations on one product of each variant and on
   the Null product, which exists once getInstance has been called *)

Nombres == {"", "Teclado"}
Descripciones == {"", "Teclado inalambrico"}
Imagenes == {"", "teclado.png"}
Descuentos == {-1, 0, 50, 101}
Tamanos == {-1, 5}

SetNombre(r) ==
    /\ Existe(r)
    /\ \E nombre \in Nombres :
        LET res == setNombre(objetos[r], nombre, reloj)
        IN  /\ objetos' = [objetos EXCEPT ![r] = res.p]
            /\ Emitir(res.evs)
            /\ ultimo' = Llamada("setNombre", r, nombre, errTrasEmitir(handlers, res), MoneyZero)
            /\ reduccion' = SinReduccion
            /\ UNCHANGED <<carro, items, reloj, handlers, actualizados>>

SetDescripcion(r) ==
    /\ Existe(r)
    /\ \E descripcion \in Descripciones :
        LET res == setDescripcion(objetos[r], descripcion, reloj)
        IN  /\ objetos' = [objetos EXCEPT ![r] = res.p]
            /\ Emitir(res.evs)
            /\ ultimo' = Llamada("setDescripcion", r, descripcion, errTrasEmitir(handlers, res), MoneyZero)
            /\ reduccion' = SinReduccion
            /\ UNCHANGED <<carro, items, reloj, handlers, actualizados>>

SetPrecio(r, precios) ==
    /\ Existe(r)
    /\ \E precio \in precios :
        LET res == setPrecio(objetos[r], precio, reloj)
        IN  /\ objetos' = [objetos EXCEPT ![r] = res.p]
            /\ Emitir(res.evs)
            /\ ultimo' = Llamada("setPrecio", r, precio, errTrasEmitir(handlers, res), MoneyZero)
            /\ reduccion' = SinReduccion
            /\ UNCHANGED <<carro, items, reloj, handlers, actualizados>>

SetImagenUrl(r) ==
    /\ Existe(r)
    /\ \E imagenUrl \in Imagenes :
        LET res == setImagenUrl(objetos[r], imagenUrl, reloj)
        IN  /\ objetos' = [objetos EXCEPT ![r] = res.p]
            /\ Emitir(res.evs)
            /\ ultimo' = Llamada("setImagenUrl", r, imagenUrl, errTrasEmitir(handlers, res), MoneyZero)
            /\ reduccion' = SinReduccion
            /\ UNCHANGED <<carro, items, reloj, handlers, actualizados>>

(* setDescuento exists on Producto, ProductoDigital and ProductoNatural *)
SetDescuento(r) ==
    /\ Existe(r)
    /\ objetos[r].tipo \in TiposConcretos
    /\ \E descuento \in Descuentos :
        LET res == setDescuento(objetos[r], descuento, reloj)
        IN  /\ objetos' = [objetos EXCEPT ![r] = res.p]
            /\ Emitir(res.evs)
            /\ ultimo' = Llamada("setDescuento", r, descuento, errTrasEmitir(handlers, res), MoneyZero)
            /\ reduccion' = SinReduccion
            /\ UNCHANGED <<carro, items, reloj, handlers, actualizados>>

(* setTamanoMb exists on ProductoDigital *)
SetTamanoMb(r) ==
    /\ Existe(r)
    /\ objetos[r].tipo = "DIGITAL"
    /\ \E tamanoMb \in Tamanos :
        LET res == setTamanoMb(objetos[r], tamanoMb, reloj)
        IN  /\ objetos' = [objetos EXCEPT ![r] = res.p]
            /\ Emitir(res.evs)
            /\ ultimo' = Llamada("setTamanoMb", r, tamanoMb, errTrasEmitir(handlers, res), MoneyZero)
            /\ reduccion' = SinReduccion
            /\ UNCHANGED <<carro, items, reloj, handlers, actualizados>>

(* setDestacado exists on Producto and ProductoNatural *)
SetDestacado(r) ==
    /\ Existe(r)
    /\ objetos[r].tipo \in {"STANDARD", "NATURAL"}
    /\ \E destacado \in BOOLEAN :
        LET res == setDestacado(objetos[r], destacado, reloj)
        IN  /\ objetos' = [objetos EXCEPT ![r] = res.p]
            /\ Emitir(res.evs)
            /\ ultimo' = Llamada("setDestacado", r, destacado, errTrasEmitir(handlers, res), MoneyZero)
            /\ reduccion' = SinReduccion
            /\ UNCHANGED <<carro, items, reloj, handlers, actualizados>>

(* ProductoNull.getInstance() *)
ObtenerNull ==
    LET res == getInstance(objetos[NullRef], reloj)
    IN  /\ objetos' = [objetos EXCEPT ![NullRef] = res.p]
        /\ Emitir(res.evs)
        /\ ultimo' = Llamada("getInstance", NullRef, 0, errTrasEmitir(handlers, res), MoneyZero)
        /\ reduccion' = SinReduccion
        /\ UNCHANGED <<carro, items, reloj, handlers, actualizados>>

InitMutadores ==
    /\ \E tipo \in TiposConcretos :
          objetos = [r \in Refs |->
                       IF r = 1
                       THEN NuevoProducto(Datos(tipo, 1, NombreValido, DescripcionValida,
                                                Money(1000, "USD"), 1, 0, 0, ExtraValido)).p
                       ELSE Nada]
    /\ items = <<>>
    /\ reloj = 0
    /\ eventos = <<>>
    /\ ultimo = SinLlamada
    /\ reduccion = SinReduccion
    /\ handlers = <<>>
    /\ entregas = <<>>
    /\ actualizados = <<>>
    /\ carro = SinCarro

NextMutadores ==
    \/ ObtenerNull
    \/ \E r \in {NullRef, 1} : SetNombre(r)
    \/ \E r \in {NullRef, 1} : SetDescripcion(r)
    \/ \E r \in {NullRef, 1} : SetPrecio(r, Precios)
    \/ \E r \in {NullRef, 1} : SetImagenUrl(r)
    \/ SetDescuento(1)
    \/ SetTamanoMb(1)
    \/ SetDestacado(1)
    \/ \E r \in {NullRef, 1} : SetStock(r)
    \/ \E r \in {NullRef, 1} : ReducirStock(r, {0, 1})
    \/ \E r \in {NullRef, 1} : AumentarStock(r, {0, 1})

SpecMutadores == InitMutadores /\ [][NextMutadores]_vars

----------------------------------------------------------------------------
(* The pricing visitor applied to a product of each variant and to the Null
   product *)

Impuestos == {0, impuestoDigitalPorDefecto, impuestoGeneralPorDefecto}

(* Prices whose discounted, taxed amounts are whole numbers of cents *)
PreciosVisitor == {Money(1000, "USD"), Money(2000, "COP")}

Visitors ==
    { PrecioProductoVisitor(general, digital) : general \in Impuestos, digital \in Impuestos }

Accept(r) ==
    /\ Existe(r)
    /\ \E v \in Visitors :
        LET res == accept(objetos[r], v)
        IN  /\ Emitir(<<>>)
            /\ ultimo' = Llamada("accept", r, v, res.err, res.m)
            /\ reduccion' = SinReduccion
            /\ UNCHANGED <<carro, objetos, items, reloj, handlers, actualizados>>

InitVisitor ==
    /\ \E tipo \in TiposConcretos, precio \in PreciosVisitor, descuento \in {0, 50} :
          objetos = [SinObjetos EXCEPT ![1] =
                        NuevoProducto(Datos(tipo, 1, NombreValido, DescripcionValida,
                                            precio, 1, descuento, 0, ExtraValido)).p]
    /\ items = <<>>
    /\ reloj = 0
    /\ eventos = <<>>
    /\ ultimo = SinLlamada
    /\ reduccion = SinReduccion
    /\ handlers = <<>>
    /\ entregas = <<>>
    /\ actualizados = <<>>
    /\ carro = SinCarro

NextVisitor == \E r \in {NullRef, 1} : Accept(r)

SpecVisitor == InitVisitor /\ [][NextVisitor]_vars

----------------------------------------------------------------------------
(* Money values and the final price of a product of each variant *)

Importes == { Money(amount, currency) : amount \in {-1000, 0, 1000}, currency \in CodigosValidos }

(* Money.fromValue(amount, currency) *)
MoneyCrear ==
    \E amount \in {-1000, 0, 1000}, currency \in CodigosValidos \cup {"", "US"} :
        LET res == MoneyConstructor(amount, currency)
        IN  /\ Emitir(<<>>)
            /\ ultimo' = Llamada("Money.fromValue", 0, [amount |-> amount, currency |-> currency],
                                 res.err, res.m)
            /\ reduccion' = SinReduccion
            /\ UNCHANGED <<carro, objetos, items, reloj, handlers, actualizados>>

(* a.subtract(b) *)
MoneyRestar ==
    \E a \in Importes, b \in Importes :
        LET res == MoneySubtract(a, b)
        IN  /\ Emitir(<<>>)
            /\ ultimo' = Llamada("Money.subtract", 0, <<a, b>>, res.err, res.m)
            /\ reduccion' = SinReduccion
            /\ UNCHANGED <<carro, objetos, items, reloj, handlers, actualizados>>

(* a.multiply(factor) *)
MoneyMultiplicar ==
    \E a \in Importes, factor \in {-1, 0, 2} :
        LET res == MoneyMultiply(a, factor)
        IN  /\ Emitir(<<>>)
            /\ ultimo' = Llamada("Money.multiply", 0, <<a, factor>>, OK, res)
            /\ reduccion' = SinReduccion
            /\ UNCHANGED <<carro, objetos, items, reloj, handlers, actualizados>>

(* a.applyDiscount(pct) *)
MoneyDescontar ==
    \E a \in Importes, pct \in {-1, 0, 50, 100, 101} :
        LET res == MoneyApplyDiscount(a, pct)
        IN  /\ Emitir(<<>>)
            /\ ultimo' = Llamada("Money.applyDiscount", 0, <<a, pct>>, res.err, res.m)
            /\ reduccion' = SinReduccion
            /\ UNCHANGED <<carro, objetos, items, reloj, handlers, actualizados>>

(* producto.calcularPrecioFinal() *)
CalcularPrecioFinal(r) ==
    /\ Existe(r)
    /\ Emitir(<<>>)
    /\ ultimo' = Llamada("calcularPrecioFinal", r, 0, OK, calcularPrecioFinal(objetos[r]))
    /\ reduccion' = SinReduccion
    /\ UNCHANGED <<carro, objetos, items, reloj, handlers, actualizados>>

InitMoney ==
    /\ \E tipo \in TiposConcretos, precio \in {m \in Importes : m.amount >= 0},
          descuento \in {0, 50, 100} :
          objetos = [SinObjetos EXCEPT ![1] =
                        NuevoProducto(Datos(tipo, 1, NombreValido, DescripcionValida,
                                            precio, 1, descuento, 0, ExtraValido)).p]
    /\ items = <<>>
    /\ reloj = 0
    /\ eventos = <<>>
    /\ ultimo = SinLlamada
    /\ reduccion = SinReduccion
    /\ handlers = <<>>
    /\ entregas = <<>>
    /\ actualizados = <<>>
    /\ carro = SinCarro

NextMoney ==
    \/ MoneyCrear
    \/ MoneyRestar
    \/ MoneyMultiplicar
    \/ MoneyDescontar
    \/ SetPrecio(1, Importes)
    \/ CalcularPrecioFinal(1)

SpecMoney == InitMoney /\ [][NextMoney]_vars

----------------------------------------------------------------------------
(* The product service over a repository that holds one product *)

Hallazgos ==
    {[err |-> ErrRepositorio, ref |-> NullRef]} \cup {[err |-> OK, ref |-> r] : r \in {NullRef, 1}}

Ids == {"", "test-id"}

GetProductoById ==
    \E hallado \in Hallazgos :
        LET res == getProductoById(hallado)
        IN  /\ Emitir(<<>>)
            /\ ultimo' = Llamada("getProductoById", res.ref, hallado, res.err, MoneyZero)
            /\ reduccion' = SinReduccion
            /\ actualizados' = <<>>
            /\ UNCHANGED <<carro, objetos, items, reloj, handlers>>

UpdateStock ==
    \E hallado \in Hallazgos, id \in Ids, cantidad \in (-(MaxStock + 1))..MaxCantidad :
        LET res == updateStock(objetos, hallado, id, cantidad, reloj)
        IN  /\ res.p.stock <= MaxStock
            /\ objetos' = [objetos EXCEPT ![hallado.ref] = res.p]
            /\ Emitir(res.evs)
            /\ ultimo' = Llamada("updateStock", hallado.ref,
                                 [hallado |-> hallado, id |-> id, cantidad |-> cantidad],
                                 errTrasEmitir(handlers, res), MoneyZero)
            /\ reduccion' = Reduccion(hallado.ref, cantidad, objetos[hallado.ref].stock, res.err)
            /\ actualizados' = IF emitFalla(handlers, res.evs) THEN <<>> ELSE res.update
            /\ UNCHANGED <<carro, items, reloj, handlers>>

(* The productoData of updateProducto: nothing, one field, every field, and
   a valid name followed by a field that fails its validation *)
DatosDeActualizacion ==
    { UpdateProductoDTO(<<>>, <<>>, <<>>, <<>>, <<>>, <<>>, <<>>),
      UpdateProductoDTO(<<"Teclado">>, <<>>, <<>>, <<>>, <<>>, <<>>, <<>>),
      UpdateProductoDTO(<<"">>, <<>>, <<>>, <<2>>, <<>>, <<>>, <<>>),
      UpdateProductoDTO(<<"Teclado">>, <<"Teclado inalambrico">>, <<2000>>, <<2>>,
                        <<"teclado.png">>, <<50>>, <<TRUE>>),
      UpdateProductoDTO(<<"Teclado">>, <<>>, <<>>, <<-1>>, <<>>, <<>>, <<>>),
      UpdateProductoDTO(<<NombreValido>>, <<>>, <<>>, <<>>, <<>>, <<101>>, <<>>),
      UpdateProductoDTO(<<>>, <<>>, <<>>, <<0>>, <<>>, <<-1>>, <<>>) }

UpdateProducto ==
    \E hallado \in Hallazgos, id \in Ids, data \in DatosDeActualizacion :
        LET res == updateProducto(objetos, hallado, id, data, reloj)
        IN  /\ objetos' = [objetos EXCEPT ![hallado.ref] = res.p]
            /\ Emitir(res.evs)
            /\ ultimo' = Llamada("updateProducto", hallado.ref,
                                 [hallado |-> hallado, id |-> id, data |-> data],
                                 errTrasEmitir(handlers, res), MoneyZero)
            /\ reduccion' = SinReduccion
            /\ actualizados' = IF emitFalla(handlers, res.evs) THEN <<>> ELSE res.update
            /\ UNCHANGED <<carro, items, reloj, handlers>>

InitServicio ==
    /\ \E tipo \in TiposConcretos, stock \in 0..MaxStock :
          objetos = [SinObjetos EXCEPT ![1] =
                        NuevoProducto(Datos(tipo, 1, NombreValido, DescripcionValida,
                                            Money(1000, "USD"), stock, 0, 0, ExtraValido)).p]
    /\ items = <<>>
    /\ reloj = 0
    /\ eventos = <<>>
    /\ ultimo = SinLlamada
    /\ reduccion = SinReduccion
    /\ handlers = <<>>
    /\ entregas = <<>>
    /\ actualizados = <<>>
    /\ carro = SinCarro

NextServicio ==
    \/ GetProductoById
    \/ UpdateStock
    \/ UpdateProducto
    \/ Tick

SpecServicio == InitServicio /\ [][NextServicio]_vars

----------------------------------------------------------------------------
(* The event emitter: handlers subscribe and unsubscribe while the stock of
   a product changes *)

MaxHandlers == 2

(* ProductoEventEmitter.getInstance().subscribe(handler) *)
Subscribe(h) ==
    /\ Len(handlers) < MaxHandlers
    /\ handlers' = subscribe(handlers, h)
    /\ Emitir(<<>>)
    /\ ultimo' = Llamada("subscribe", 0, h, OK, MoneyZero)
    /\ reduccion' = SinReduccion
    /\ UNCHANGED <<carro, objetos, items, reloj, actualizados>>

(* ProductoEventEmitter.getInstance().unsubscribe(handler) *)
Unsubscribe(h) ==
    /\ handlers' = unsubscribe(handlers, h)
    /\ Emitir(<<>>)
    /\ ultimo' = Llamada("unsubscribe", 0, h, OK, MoneyZero)
    /\ reduccion' = SinReduccion
    /\ UNCHANGED <<carro, objetos, items, reloj, actualizados>>

InitEmisor ==
    /\ objetos = [SinObjetos EXCEPT ![1] =
                     NuevoProducto(Datos("STANDARD", 1, NombreValido, DescripcionValida,
                                         Money(1000, "USD"), 1, 0, 0, ExtraValido)).p]
    /\ items = <<>>
    /\ reloj = 0
    /\ eventos = <<>>
    /\ ultimo = SinLlamada
    /\ reduccion = SinReduccion
    /\ handlers = <<>>
    /\ entregas = <<>>
    /\ actualizados = <<>>
    /\ carro = SinCarro

NextEmisor ==
    \/ \E h \in Handlers : Subscribe(h)
    \/ \E h \in Handlers : Unsubscribe(h)
    \/ SetStock(1)
    \/ ReducirStock(1, {1})
    \/ AumentarStock(1, {1})

SpecEmisor == InitEmisor /\ [][NextEmisor]_vars

----------------------------------------------------------------------------
(* A product constructed with an updatedAt argument of the caller's choice
   (the constructors take createdAt and updatedAt as parameters, new Date()
   being only their default), then mutated while time passes *)

(* The updatedAt arguments: before, at and after the clock's range *)
Fechas == 0..(MaxReloj + 1)

InitFechas ==
    /\ \E tipo \in TiposConcretos, updatedAt \in Fechas :
          objetos = [SinObjetos EXCEPT ![1] =
                        NuevoProducto(Datos(tipo, 1, NombreValido, DescripcionValida,
                                            Money(1000, "USD"), 1, 0, updatedAt,
                                            ExtraValido)).p]
    /\ items = <<>>
    /\ reloj = 0
    /\ eventos = <<>>
    /\ ultimo = SinLlamada
    /\ reduccion = SinReduccion
    /\ handlers = <<>>
    /\ entregas = <<>>
    /\ actualizados = <<>>
    /\ carro = SinCarro

NextFechas ==
    \/ SetNombre(1)
    \/ SetDescripcion(1)
    \/ SetPrecio(1, Precios)
    \/ SetDescuento(1)
    \/ SetTamanoMb(1)
    \/ SetStock(1)
    \/ ReducirStock(1, {0, 1})
    \/ AumentarStock(1, {0, 1})
    \/ Tick

SpecFechas == InitFechas /\ [][NextFechas]_vars

----------------------------------------------------------------------------
(* The cart and the products behind its lines: products 2 and 3 of the
   catalogue are added to the cart and their quantities updated while the
   price, the discount and the stock of product 2 change *)

NextReferencias ==
    \/ \E r \in {2, 3} : AgregarProducto(r)
    \/ \E id \in {2, 3} : ActualizarCantidad(id)
    \/ CalcularTotal
    \/ SetPrecio(2, Precios)
    \/ SetDescuento(2)
    \/ ReducirStock(2, {1})
    \/ AumentarStock(2, {1})

SpecReferencias == InitCarrito /\ [][NextReferencias]_vars

----------------------------------------------------------------------------
(* CarritoServiceImpl objects over the catalogue: each is constructed once;
   the products are added with quantity 1 in ascending order of reference,
   those with an odd reference through s1 and the others through s2; the
   quantities of the lines of products 1 and 2 are updated through both *)

NuevoServicio(s) ==
    /\ carro.carrito[s] = 0
    /\ carro' = CarritoServiceImpl(carro, s)
    /\ Emitir(<<>>)
    /\ ultimo' = Llamada("new CarritoServiceImpl", 0, s, OK, MoneyZero)
    /\ reduccion' = SinReduccion
    /\ UNCHANGED <<objetos, items, reloj, handlers, actualizados>>

ServicioDe(r) == IF r % 2 = 1 THEN "s1" ELSE "s2"

(* The product that may be added next through s *)
SiguienteProducto(s) ==
    { r \in Refs \ {NullRef} :
        /\ ServicioDe(r) = s
        /\ r \notin DOMAIN itemsDe(carro, s)
        /\ \A q \in Refs \ {NullRef} : q < r => q \in DOMAIN itemsDe(carro, s) }

(* CarritoServiceImpl.agregarProducto(producto, 1) on service s *)
ServicioAgregarProducto(s) ==
    /\ carro.carrito[s] # 0
    /\ \E r \in SiguienteProducto(s) :
        LET res == agregarProducto(itemsDe(carro, s), r, objetos[r], 1)
        IN  /\ carro' = [carro EXCEPT !.carritos[carro.carrito[s]] = res.items]
            /\ Emitir(<<>>)
            /\ ultimo' = Llamada("servicio.agregarProducto", r, s, res.err, MoneyZero)
            /\ reduccion' = SinReduccion
            /\ UNCHANGED <<objetos, items, reloj, handlers, actualizados>>

(* CarritoServiceImpl.actualizarCantidad(productoId, cantidad) on service s *)
ServicioActualizarCantidad(s) ==
    /\ carro.carrito[s] # 0
    /\ \E id \in RefsVariables, cantidad \in Cantidades :
        LET res == actualizarCantidad(itemsDe(carro, s), objetos, id, cantidad)
        IN  /\ carro' = [carro EXCEPT !.carritos[carro.carrito[s]] = res.items]
            /\ Emitir(<<>>)
            /\ ultimo' = Llamada("servicio.actualizarCantidad", id, s, res.err, MoneyZero)
            /\ reduccion' = SinReduccion
            /\ UNCHANGED <<objetos, items, reloj, handlers, actualizados>>

(* CarritoServiceImpl.vaciarCarrito() on service s *)
ServicioVaciarCarrito(s) ==
    /\ carro.carrito[s] # 0
    /\ carro' = [carro EXCEPT !.carritos[carro.carrito[s]] = <<>>]
    /\ Emitir(<<>>)
    /\ ultimo' = Llamada("servicio.vaciarCarrito", 0, s, OK, MoneyZero)
    /\ reduccion' = SinReduccion
    /\ UNCHANGED <<objetos, items, reloj, handlers, actualizados>>

NextSingleton ==
    \/ \E s \in Servicios : NuevoServicio(s)
    \/ \E s \in Servicios : ServicioAgregarProducto(s)
    \/ \E s \in Servicios : ServicioActualizarCantidad(s)
    \/ \E s \in Servicios : ServicioVaciarCarrito(s)

SpecSingleton == InitCarrito /\ [][NextSingleton]_vars

----------------------------------------------------------------------------
(* Properties *)

(* The step is a call of op: every call records itself in ultimo, and only
   Tick, which moves the clock, leaves ultimo as it was *)
EsLlamada(op) == ultimo'.op = op /\ reloj' = reloj

NoNulo(p) == p.tipo \in TiposConcretos

(* C1: every Standard, Digital or Natural product that exists, after its
   construction and after any sequence of setStock, reducirStock and
   aumentarStock calls, failed ones included, has stock >= 0 or stock = -1. *)
C1_StockNoNegativo ==
    \A r \in Refs : NoNulo(objetos[r]) => (objetos[r].stock >= 0 \/ objetos[r].stock = -1)

(* A product driven down to stock 0 by a successful reducirStock *)
C1_Testigo ==
    /\ ultimo.op = "reducirStock" /\ ultimo.err = OK /\ ultimo.ref = 1
    /\ NoNulo(objetos[1]) /\ objetos[1].stock = 0

(* C2: on a non-Null product whose stock is not -1, reducirStock(cantidad)
   with cantidad > stock throws the insufficient-stock error, leaves the
   product (stock and updatedAt included) as it was and emits no event. *)
C2_ReducirDeMas ==
    [][ \A r \in Refs :
          ( /\ EsLlamada("reducirStock") /\ ultimo'.ref = r
            /\ NoNulo(objetos[r]) /\ objetos[r].stock # -1
            /\ ultimo'.arg > objetos[r].stock )
          => ( /\ ultimo'.err = ErrStockInsuficiente
               /\ objetos'[r].stock = objetos[r].stock
               /\ objetos'[r].updatedAt = objetos[r].updatedAt
               /\ objetos'[r] = objetos[r]
               /\ Emitir(<<>>) ) ]_vars

(* reducirStock refused on a depleted product last updated before now *)
C2_Testigo ==
    /\ ultimo.op = "reducirStock" /\ ultimo.err = ErrStockInsuficiente /\ ultimo.ref = 1
    /\ ultimo.arg > 0 /\ NoNulo(objetos[1]) /\ objetos[1].stock = 0
    /\ objetos[1].updatedAt < reloj /\ eventos = <<>>

(* C8: on a Digital product whose stock is -1, reducirStock(cantidad) with
   cantidad > 0 succeeds and leaves stock at -1. *)
C8_IlimitadoSeReduce ==
    ( /\ ultimo.op = "reducirStock" /\ reduccion.hay
      /\ objetos[ultimo.ref].tipo = "DIGITAL"
      /\ reduccion.stock = StockIlimitado /\ reduccion.cantidad > 0 )
    => (ultimo.err = OK /\ objetos[ultimo.ref].stock = StockIlimitado)

(* C9: ProductoDigital.builder() with every required field set and stock left
   at the builder's default (or set by withStockIlimitado) builds a product
   with stock -1 that is available. *)
C9_DigitalIlimitado ==
    ( /\ ultimo.op = "build" /\ ultimo.arg = StockIlimitado
      /\ ultimo.err \notin {ErrNombreObligatorio, ErrDescripcionObligatoria,
                            ErrCategoriaObligatoria, ErrUrlObligatoria} )
    => ( /\ ultimo.err = OK
         /\ objetos[ultimo.ref].tipo = "DIGITAL"
         /\ objetos[ultimo.ref].stock = StockIlimitado
         /\ estaDisponible(objetos[ultimo.ref]) )

(* C10: on a non-Null product with stock s >= 0, for 0 < cantidad <= s,
   reducirStock(cantidad) followed by aumentarStock(cantidad) both succeed
   and leave stock equal to s. *)
C10_IdaYVuelta ==
    ( /\ ultimo.op = "aumentarStock" /\ reduccion.hay /\ reduccion.ref = ultimo.ref
      /\ ultimo.arg = reduccion.cantidad
      /\ NoNulo(objetos[ultimo.ref])
      /\ reduccion.stock >= 0
      /\ 0 < reduccion.cantidad /\ reduccion.cantidad <= reduccion.stock )
    => ( /\ reduccion.err = OK
         /\ ultimo.err = OK
         /\ objetos[ultimo.ref].stock = reduccion.stock )

(* A product emptied by reducirStock and refilled by the same amount *)
C10_Testigo ==
    /\ ultimo.op = "aumentarStock" /\ ultimo.err = OK /\ ultimo.ref = 1
    /\ reduccion.hay /\ reduccion.ref = 1 /\ reduccion.err = OK
    /\ reduccion.cantidad = ultimo.arg /\ reduccion.cantidad = 2 /\ reduccion.stock = 2
    /\ NoNulo(objetos[1]) /\ objetos[1].stock = 2

(* A product that reports itself unavailable: the Null product, or a
   Standard, Digital or Natural product with stock 0 *)
Agotado(p) == p.tipo = "NULL" \/ (NoNulo(p) /\ p.stock = 0)

NumLineas(its) == Cardinality(DOMAIN its)

(* C3 as stated: the cart never holds more than 10 lines; agregarProducto of
   a product that is not a line, on a cart of 10 lines, throws the capacity
   error and leaves the cart as it was; agregarProducto of an available
   product that is a line succeeds and adds cantidad to its quantity, also on
   a cart of 10 lines. *)
C3_Original ==
    [][ /\ NumLineas(items') <= maxItemsPermitidos
        /\ \A r \in Refs :
            (EsLlamada("agregarProducto") /\ ultimo'.ref = r) =>
              LET id == objetos[r].id
              IN  /\ (id \notin DOMAIN items /\ NumLineas(items) >= maxItemsPermitidos)
                       => (ultimo'.err = ErrMaxItems /\ items' = items)
                  /\ (id \in DOMAIN items /\ ~Agotado(objetos[r]))
                       => ( /\ ultimo'.err = OK
                            /\ DOMAIN items' = DOMAIN items
                            /\ items'[id].cantidad = items[id].cantidad + ultimo'.arg ) ]_vars

(* C3 amended: the same, where the product that is not a line is available *)
C3_LimiteDeLineas ==
    [][ /\ NumLineas(items') <= maxItemsPermitidos
        /\ \A r \in Refs :
            (EsLlamada("agregarProducto") /\ ultimo'.ref = r) =>
              LET id == objetos[r].id
              IN  /\ ( /\ id \notin DOMAIN items /\ ~Agotado(objetos[r])
                       /\ NumLineas(items) >= maxItemsPermitidos )
                       => (ultimo'.err = ErrMaxItems /\ items' = items)
                  /\ (id \in DOMAIN items /\ ~Agotado(objetos[r]))
                       => ( /\ ultimo'.err = OK
                            /\ DOMAIN items' = DOMAIN items
                            /\ items'[id].cantidad = items[id].cantidad + ultimo'.arg ) ]_vars

(* An eleventh distinct product refused on a cart of 10 lines *)
C3_Testigo ==
    /\ ultimo.op = "agregarProducto" /\ ultimo.err = ErrMaxItems
    /\ NumLineas(items) = maxItemsPermitidos
    /\ objetos[ultimo.ref].id \notin DOMAIN items

(* C4: after any sequence of agregarProducto, eliminarProducto and
   actualizarCantidad calls with integer arguments, every line of the cart
   has quantity > 0. *)
C4_CantidadPositiva ==
    \A id \in DOMAIN items : items[id].cantidad > 0

(* The sum over the lines of calcularPrecioFinal().amount x cantidad *)
RECURSIVE SumaDeLineas(_, _, _)
SumaDeLineas(its, objs, ids) ==
    IF ids = {} THEN 0
    ELSE LET id == CHOOSE j \in ids : TRUE
         IN  calcularPrecioFinal(objs[its[id].producto]).amount * its[id].cantidad
             + SumaDeLineas(its, objs, ids \ {id})

MonedasDeLineas(its, objs) == { objs[its[id].producto].precio.currency : id \in DOMAIN its }

(* C5: on a cart of lines with positive quantities whose products all share
   one currency, calcularTotal() succeeds and returns, in that currency, the
   sum over the lines of calcularPrecioFinal() x cantidad. *)
C5_TotalEnUnaMoneda ==
    ( /\ ultimo.op = "calcularTotal" /\ items # <<>>
      /\ \A id \in DOMAIN items : items[id].cantidad > 0
      /\ Cardinality(MonedasDeLineas(items, objetos)) = 1 )
    => ( /\ ultimo.err = OK
         /\ ultimo.ret.amount = SumaDeLineas(items, objetos, DOMAIN items)
         /\ {ultimo.ret.currency} = MonedasDeLineas(items, objetos) )

(* C6: agregarProducto of a product that is unavailable (the Null product, or
   a depleted Standard, Digital or Natural product) throws the
   product-unavailable error and leaves the lines as they were, also when the
   product is a line of the cart. *)
C6_NoDisponible ==
    [][ \A r \in Refs :
          (EsLlamada("agregarProducto") /\ ultimo'.ref = r /\ Agotado(objetos[r]))
          => (ultimo'.err = ErrNoDisponible /\ items' = items) ]_vars

(* A depleted product that is a line of the cart, refused *)
C6_Testigo ==
    /\ ultimo.op = "agregarProducto" /\ ultimo.err = ErrNoDisponible
    /\ NoNulo(objetos[ultimo.ref]) /\ objetos[ultimo.ref].stock = 0
    /\ objetos[ultimo.ref].id \in DOMAIN items

(* C7: actualizarCantidad(id, cantidad) checks in this order: id is not a line:
   line-not-found, nothing changes; else cantidad <= 0: the line is removed,
   the product unavailable or not; else the line's product is unavailable:
   product-unavailable, nothing changes; else the line's quantity becomes
   cantidad and nothing else changes. *)
C7_OrdenDeActualizar ==
    [][ \A id \in {NullId} \cup (Refs \ {NullRef}) :
          (EsLlamada("actualizarCantidad") /\ ultimo'.ref = id) =>
            LET cantidad == ultimo'.arg
            IN  IF id \notin DOMAIN items
                THEN ultimo'.err = ErrNoEnCarrito /\ items' = items
                ELSE IF cantidad <= 0
                THEN /\ ultimo'.err = OK
                     /\ DOMAIN items' = DOMAIN items \ {id}
                     /\ \A j \in DOMAIN items' : items'[j] = items[j]
                ELSE IF Agotado(objetos[items[id].producto])
                THEN ultimo'.err = ErrNoDisponible /\ items' = items
                ELSE /\ ultimo'.err = OK
                     /\ DOMAIN items' = DOMAIN items
                     /\ items'[id].cantidad = cantidad
                     /\ items'[id].producto = items[id].producto
                     /\ \A j \in DOMAIN items \ {id} : items'[j] = items[j] ]_vars

(* The line of a depleted product removed by actualizarCantidad(id, 0) *)
C7_Testigo ==
    /\ ultimo.op = "actualizarCantidad" /\ ultimo.err = OK /\ ultimo.arg <= 0
    /\ ultimo.ref = 1 /\ 1 \notin DOMAIN items /\ objetos[1].stock = 0
    /\ items # <<>>


(* The mutators of the Null product *)
MutadoresNulo ==
    {"setNombre", "setDescripcion", "setPrecio", "setStock", "setImagenUrl",
     "reducirStock", "aumentarStock"}

(* The state the Null product is to keep *)
NuloIntacto(p) ==
    /\ p.stock = 0 /\ p.precio = MoneyZero
    /\ ~estaDisponible(p) /\ calcularPrecioFinal(p) = MoneyZero

(* C11: on the Null product every call of setNombre, setDescripcion,
   setPrecio, setStock, setImagenUrl, reducirStock and aumentarStock throws,
   leaves the Null product as it was (stock 0, price zero, not available,
   final price zero) and emits no event; getInstance emits no event either. *)
C11_NuloInmutable ==
    [][ /\ \A op \in MutadoresNulo :
            (EsLlamada(op) /\ ultimo'.ref = NullRef)
            => ( /\ ultimo'.err \in {ErrNuloModificar, ErrNuloReducir, ErrNuloAumentar}
                 /\ objetos'[NullRef] = objetos[NullRef]
                 /\ NuloIntacto(objetos'[NullRef])
                 /\ eventos' = <<>> )
        /\ EsLlamada("getInstance")
            => ( /\ ultimo'.err = OK /\ eventos' = <<>>
                 /\ objetos'[NullRef].tipo = "NULL"
                 /\ NuloIntacto(objetos'[NullRef]) ) ]_vars

(* setPrecio refused on the Null product *)
C11_Testigo ==
    /\ ultimo.op = "setPrecio" /\ ultimo.ref = NullRef
    /\ ultimo.err = ErrNuloModificar /\ ultimo.arg.amount > 0
    /\ objetos[NullRef].tipo = "NULL" /\ eventos = <<>>

(* C12: on a non-Null product each successful setNombre, setDescripcion,
   setPrecio, setImagenUrl or setDescuento emits exactly one updated event
   and no other event, and each successful setStock, reducirStock or
   aumentarStock emits exactly one stock-changed event and no other event. *)
C12_UnEventoPorMutacion ==
    [][ \A r \in Refs :
          (NoNulo(objetos[r]) /\ ultimo'.ref = r /\ ultimo'.err = OK) =>
            /\ (\E op \in {"setNombre", "setDescripcion", "setPrecio", "setImagenUrl",
                            "setDescuento"} : EsLlamada(op))
                 => (Len(eventos') = 1 /\ eventos'[1].kind = "updated")
            /\ (\E op \in {"setStock", "reducirStock", "aumentarStock"} : EsLlamada(op))
                 => (Len(eventos') = 1 /\ eventos'[1].kind = "stockChanged") ]_vars

(* A successful setDescuento on a ProductoNatural and its one event *)
C12_Testigo ==
    /\ ultimo.op = "setDescuento" /\ ultimo.err = OK /\ ultimo.ref = 1
    /\ objetos[1].tipo = "NATURAL" /\ objetos[1].descuento = 50
    /\ Len(eventos) = 1 /\ eventos[1].kind = "updated"


(* ret = m x (1 + impuesto / 100), exactly *)
EsConImpuesto(ret, m, impuesto) ==
    ret.amount * 100 = m.amount * (100 + impuesto) /\ ret.currency = m.currency

(* C13: accept(PrecioProductoVisitor(general, digital)) returns
   calcularPrecioFinal() x (1 + general/100) for a Standard product,
   calcularPrecioFinal() x (1 + digital/100) for a Digital product, in the
   product's currency, and zero for the Null product whatever the rates. *)
C13_PrecioConImpuesto ==
    ultimo.op = "accept" =>
        LET p == objetos[ultimo.ref]
            v == ultimo.arg
        IN  /\ p.tipo = "STANDARD" =>
                  ( /\ ultimo.err = OK
                    /\ EsConImpuesto(ultimo.ret, calcularPrecioFinal(p), v.impuestoGeneral) )
            /\ p.tipo = "DIGITAL" =>
                  ( /\ ultimo.err = OK
                    /\ EsConImpuesto(ultimo.ret, calcularPrecioFinal(p), v.impuestoDigital) )
            /\ p.tipo = "NULL" => (ultimo.err = OK /\ ultimo.ret.amount = 0)

(* A discounted Digital product priced by the default visitor: 500 x 1.10 *)
C13_Testigo ==
    /\ ultimo.op = "accept" /\ ultimo.err = OK /\ ultimo.ref = 1
    /\ objetos[1].tipo = "DIGITAL" /\ objetos[1].descuento = 50
    /\ objetos[1].precio = Money(1000, "USD")
    /\ ultimo.arg = PrecioProductoVisitor(impuestoGeneralPorDefecto, impuestoDigitalPorDefecto)
    /\ ultimo.ret = Money(550, "USD")

(* C14: accept(PrecioProductoVisitor) on a Natural product returns its
   calcularPrecioFinal() x (1 + general/100), as for a Standard product. *)
C14_NaturalConImpuesto ==
    (ultimo.op = "accept" /\ objetos[ultimo.ref].tipo = "NATURAL") =>
        ( /\ ultimo.err = OK
          /\ EsConImpuesto(ultimo.ret, calcularPrecioFinal(objetos[ultimo.ref]),
                           ultimo.arg.impuestoGeneral) )


(* C15: for a Standard, Digital or Natural product with base price p and
   discount d in [0, 100], calcularPrecioFinal() is p x (1 - d/100) in the
   price's currency: p at d = 0, zero at d = 100, never more than p and
   never below zero. *)
C15_PrecioFinal ==
    ( /\ ultimo.op = "calcularPrecioFinal" /\ NoNulo(objetos[ultimo.ref])
      /\ objetos[ultimo.ref].descuento \in 0..100 )
    => LET p == objetos[ultimo.ref].precio
           d == objetos[ultimo.ref].descuento
       IN  /\ ultimo.err = OK
           /\ ultimo.ret.amount * 100 = p.amount * (100 - d)
           /\ ultimo.ret.currency = p.currency
           /\ d = 0 => ultimo.ret = p
           /\ d = 100 => ultimo.ret.amount = 0
           /\ ultimo.ret.amount <= p.amount
           /\ ultimo.ret.amount >= 0

(* C16: creating a Money with a negative amount fails, and every Money that
   exists (a result of fromValue, subtract, multiply or applyDiscount, or the
   price of a product) has amount >= 0. *)
C16_ImporteNoNegativo ==
    /\ (ultimo.op = "Money.fromValue" /\ ultimo.arg.amount < 0) => ultimo.err # OK
    /\ ( /\ ultimo.op \in {"Money.fromValue", "Money.subtract", "Money.multiply",
                             "Money.applyDiscount"}
          /\ ultimo.err = OK )
        => ultimo.ret.amount >= 0
    /\ \A r \in Refs : NoNulo(objetos[r]) => objetos[r].precio.amount >= 0


(* C17: getProductoById never rejects: it resolves to ProductoNull's instance
   when repository.findById rejects, and otherwise to the very product the
   repository returned. *)
C17_NuncaRechaza ==
    ultimo.op = "getProductoById" =>
        /\ ultimo.err = OK
        /\ ultimo.arg.err # OK => (ultimo.ref = NullRef /\ objetos[NullRef].tipo = "NULL")
        /\ ultimo.arg.err = OK => ultimo.ref = ultimo.arg.ref

(* findById rejected, the Null product returned *)
C17_Testigo ==
    /\ ultimo.op = "getProductoById" /\ ultimo.arg.err = ErrRepositorio
    /\ ultimo.err = OK /\ ultimo.ref = NullRef /\ objetos[ultimo.ref] = ProductoNull

(* The message the service's test expects of a reduction below zero *)
StockInsuficienteEsperado == "Stock insuficiente"

(* C18: updateStock(id, c) on an existing product: when old + c >= 0 it
   resolves, the product's stock is old + c and the product was passed to
   repository.update; when c < 0 and |c| > old it rejects with the error
   'Stock insuficiente', the stock is unchanged and repository.update was
   not called. *)
C18_DeltaDeStock ==
    ( /\ ultimo.op = "updateStock" /\ ultimo.arg.id # ""
      /\ ultimo.arg.hallado.err = OK /\ NoNulo(objetos[ultimo.ref]) )
    => LET old == reduccion.stock
           c == ultimo.arg.cantidad
       IN  /\ old + c >= 0 =>
                 ( /\ ultimo.err = OK
                   /\ objetos[ultimo.ref].stock = old + c
                   /\ actualizados = <<ultimo.ref>> )
           /\ (c < 0 /\ -c > old) =>
                 ( /\ ultimo.err = StockInsuficienteEsperado
                   /\ objetos[ultimo.ref].stock = old
                   /\ actualizados = <<>> )


(* C19: the emit of a mutator invokes every handler subscribed at that
   moment, once per subscription and in subscription order, before the
   mutator returns; a handler removed by unsubscribe is no longer subscribed
   and is not invoked. *)
C19_EntregaEnOrden ==
    [][ /\ ( /\ \E op \in {"setStock", "reducirStock", "aumentarStock"} : EsLlamada(op)
              /\ eventos' # <<>> )
            => ( /\ Len(entregas') = Len(handlers)
                 /\ \A i \in 1..Len(handlers) :
                       i <= Len(entregas') =>
                         ( /\ entregas'[i].handler = handlers[i]
                           /\ entregas'[i].evento = eventos'[1] ) )
        /\ EsLlamada("unsubscribe")
            => \A i \in 1..Len(handlers') : handlers'[i] # ultimo'.arg ]_vars


(* C20: every Standard, Digital or Natural product that exists, however it
   was constructed and whatever setDescuento calls followed, has
   0 <= descuento <= 100. *)
C20_DescuentoEnRango ==
    \A r \in Refs :
        NoNulo(objetos[r]) => (0 <= objetos[r].descuento /\ objetos[r].descuento <= 100)


(* The operations that mutate a product *)
Mutaciones ==
    {"setNombre", "setDescripcion", "setPrecio", "setImagenUrl", "setDescuento",
     "setStock", "reducirStock", "aumentarStock"}

(* C21: the clock never going back, each successful mutation of a product
   leaves its updatedAt >= the updatedAt it had before the mutation, whatever
   updatedAt the product was constructed with. *)
C21_FechaNoDecrece ==
    [][ \A r \in Refs :
          ( /\ NoNulo(objetos[r]) /\ ultimo'.ref = r /\ ultimo'.err = OK
            /\ \E op \in Mutaciones : EsLlamada(op) )
          => objetos'[r].updatedAt >= objetos[r].updatedAt ]_vars


(* C22: a product with stock 0 comes to have stock > 0 only by a successful
   aumentarStock call on it; no other operation takes it from stock 0 to
   stock > 0. *)
C22_Original ==
    [][ \A r \in Refs :
          (NoNulo(objetos[r]) /\ objetos[r].stock = 0 /\ objetos'[r].stock > 0)
          => (EsLlamada("aumentarStock") /\ ultimo'.ref = r /\ ultimo'.err = OK) ]_vars

(* C22, amended: a product with stock 0 becomes available again (stock > 0,
   or unlimited for a Digital one) only by a successful aumentarStock(c) or a
   successful setStock(s) on it with a positive argument, which leave it
   with stock c and s; no setter of another field, no reducirStock and no
   failed call does. *)
C22_SoloAumentarOAsignar ==
    [][ \A r \in Refs :
          (NoNulo(objetos[r]) /\ objetos[r].stock = 0 /\ estaDisponible(objetos'[r]))
          => ( /\ EsLlamada("aumentarStock") \/ EsLlamada("setStock")
               /\ ultimo'.ref = r /\ ultimo'.err = OK
               /\ ultimo'.arg > 0 /\ objetos'[r].stock = ultimo'.arg ) ]_vars

(* setStock(2) on a product whose stock was 0 *)
C22_Testigo ==
    /\ ultimo.op = "setStock" /\ ultimo.ref = 1 /\ ultimo.err = OK /\ ultimo.arg = 2
    /\ objetos[1].stock = 2 /\ Len(eventos) = 1 /\ eventos[1].old = 0


(* The change a stock operation is to report: -qty, +qty, new - old *)
CambioEsperado(op, arg, old) ==
    CASE op = "reducirStock" -> -arg
      [] op = "aumentarStock" -> arg
      [] OTHER -> arg - old

(* C23: each stock-changed event of a product carries the stock before the
   call as oldStock, the stock after the call as newStock and
   newStock - oldStock as change (-qty for reducirStock, +qty for
   aumentarStock, new - old for setStock); the stock of a product changes
   only in a call that emits such an event, so each event's oldStock is the
   newStock of the product's previous stock-changed event. *)
C23_EventosDeStock ==
    [][ \A r \in Refs :
          (NoNulo(objetos[r]) /\ reloj' = reloj) =>
            /\ \A i \in 1..Len(eventos') :
                 (eventos'[i].kind = "stockChanged" /\ eventos'[i].id = objetos[r].id)
                 => ( /\ \E op \in {"setStock", "reducirStock", "aumentarStock"} :
                            EsLlamada(op)
                      /\ ultimo'.ref = r
                      /\ eventos'[i].old = objetos[r].stock
                      /\ eventos'[i].new = objetos'[r].stock
                      /\ eventos'[i].new = eventos'[i].old + eventos'[i].change
                      /\ eventos'[i].change =
                            CambioEsperado(ultimo'.op, ultimo'.arg, objetos[r].stock) )
            /\ objetos'[r].stock # objetos[r].stock
                 => ( /\ Len(eventos') = 1 /\ eventos'[1].kind = "stockChanged"
                      /\ eventos'[1].id = objetos[r].id ) ]_vars

(* reducirStock(1) at stock 2 and its event (2, 1, -1) *)
C23_Testigo ==
    /\ ultimo.op = "reducirStock" /\ ultimo.ref = 1 /\ ultimo.err = OK /\ ultimo.arg = 1
    /\ objetos[1].stock = 1
    /\ eventos = <<ProductoStockChangedEvent(objetos[1].id, 2, 1, -1)>>


(* The operations of a product that validate an argument *)
OperacionesValidadas ==
    {"setNombre", "setDescripcion", "setStock", "setDescuento", "setTamanoMb",
     "reducirStock", "aumentarStock"}

(* The argument is one the operation's validation rejects *)
ArgumentoInvalido(op, arg, p) ==
    CASE op = "setNombre" -> arg = ""
      [] op = "setDescripcion" -> arg = ""
      [] op = "setStock" -> arg < 0
      [] op = "setDescuento" -> arg < 0 \/ arg > 100
      [] op = "setTamanoMb" -> arg < 0
      [] op = "reducirStock" -> arg <= 0 \/ arg > p.stock
      [] OTHER -> arg <= 0

(* C24: a call of setNombre, setDescripcion, setStock, setDescuento or
   setTamanoMb with an invalid value, of reducirStock or aumentarStock with a
   quantity <= 0, or of reducirStock beyond the stock, throws, leaves every
   field of the product, updatedAt included, as it was and emits no event;
   so does every call that throws. *)
C24_FalloSinEfecto ==
    [][ \A r \in Refs :
          ( /\ NoNulo(objetos[r]) /\ ultimo'.ref = r
            /\ \E op \in OperacionesValidadas : EsLlamada(op) )
          => /\ ArgumentoInvalido(ultimo'.op, ultimo'.arg, objetos[r]) => ultimo'.err # OK
             /\ ultimo'.err # OK => (objetos'[r] = objetos[r] /\ eventos' = <<>>) ]_vars

(* setTamanoMb(-1) refused at a later time than the last successful mutation:
   the size and updatedAt are those of before the call *)
C24_Testigo ==
    /\ ultimo.op = "setTamanoMb" /\ ultimo.ref = 1 /\ ultimo.arg = -1
    /\ ultimo.err = ErrTamano /\ eventos = <<>>
    /\ objetos[1].tipo = "DIGITAL" /\ objetos[1].tamanoMb = 5
    /\ objetos[1].updatedAt < reloj


(* The attribute a setter sets, as the event is to name it *)
CampoDe(op) ==
    CASE op = "setNombre" -> "nombre"
      [] op = "setDescripcion" -> "descripcion"
      [] op = "setPrecio" -> "precio"
      [] op = "setImagenUrl" -> "imagenUrl"
      [] op = "setDescuento" -> "descuento"
      [] op = "setTamanoMb" -> "tamanoMb"
      [] OTHER -> "destacado"

(* The value of that attribute in p (the amount, for the price) *)
ValorDe(op, p) ==
    CASE op = "setNombre" -> p.nombre
      [] op = "setDescripcion" -> p.descripcion
      [] op = "setPrecio" -> p.precio.amount
      [] op = "setImagenUrl" -> p.imagenUrl
      [] op = "setDescuento" -> p.descuento
      [] op = "setTamanoMb" -> p.tamanoMb
      [] OTHER -> p.destacado

(* C25: each successful setter of an attribute of a non-Null product,
   setDescuento and setDestacado of the three variants included, emits an
   updated event that names the attribute set and carries the attribute's
   value before the call as old value and its value after the call as new
   value. *)
C25_EventoNombraCampo ==
    [][ \A r \in Refs :
          ( /\ NoNulo(objetos[r]) /\ ultimo'.ref = r /\ ultimo'.err = OK
            /\ \E op \in {"setNombre", "setDescripcion", "setPrecio", "setImagenUrl",
                          "setDescuento", "setTamanoMb", "setDestacado"} : EsLlamada(op) )
          => ( /\ Len(eventos') = 1
               /\ eventos'[1].kind = "updated"
               /\ eventos'[1].campo = CampoDe(ultimo'.op)
               /\ eventos'[1].old = ValorDe(ultimo'.op, objetos[r])
               /\ eventos'[1].new = ValorDe(ultimo'.op, objetos'[r]) ) ]_vars


(* C26: the construction of a Standard, Digital or Natural product emits
   exactly one created event when it succeeds and no event when it throws on
   a validation (name, description, stock, discount, size, ingredients or
   benefits). *)
C26_CreadoSoloSiExiste ==
    ultimo.op \in {"new", "build"} =>
        /\ ultimo.err = OK =>
              ( /\ Len(eventos) = 1 /\ eventos[1].kind = "created"
                /\ NoNulo(objetos[ultimo.ref]) /\ eventos[1].id = objetos[ultimo.ref].id )
        /\ ultimo.err # OK => eventos = <<>>


(* C27: updateProducto(id, data) is all or nothing: when it rejects, no
   field of the product has changed, no event has been emitted and
   repository.update has not been called. *)
C27_TodoONada ==
    [][ (EsLlamada("updateProducto") /\ ultimo'.err # OK)
        => (objetos' = objetos /\ eventos' = <<>> /\ actualizados' = <<>>) ]_vars


(* C28: when a subscribed handler throws on the event of a successful
   setStock, reducirStock or aumentarStock, the mutation stays applied (the
   stock is the event's new stock), every subscribed handler, those after the
   failing one included, is invoked with the event, and the call returns
   without an error. *)
C28_FalloAislado ==
    [][ ( /\ \E op \in {"setStock", "reducirStock", "aumentarStock"} : EsLlamada(op)
          /\ eventos' # <<>>
          /\ \E i \in 1..Len(handlers) : handlers[i] \in HandlersQueFallan )
        => ( /\ objetos'[ultimo'.ref].stock = eventos'[1].new
             /\ Len(entregas') = Len(handlers)
             /\ \A i \in 1..Len(handlers) :
                   i <= Len(entregas') => entregas'[i].handler = handlers[i]
             /\ ultimo'.err = OK ) ]_vars


(* C29: the lines of the cart refer to the products: a setPrecio,
   setDescuento, setStock, reducirStock or aumentarStock on a product leaves
   every line and quantity of the cart as it was; calcularTotal, when it
   returns, returns the sum over the lines of the product's present
   calcularPrecioFinal() x cantidad; and actualizarCantidad of a line to a
   positive quantity succeeds or throws the product-unavailable error
   according to the product's present stock. *)
C29_LineasPorReferencia ==
    [][ /\ (\E op \in {"setPrecio", "setDescuento", "setStock", "reducirStock",
                        "aumentarStock"} : EsLlamada(op))
            => items' = items
        /\ (EsLlamada("calcularTotal") /\ ultimo'.err = OK)
            => ultimo'.ret.amount = SumaDeLineas(items', objetos', DOMAIN items')
        /\ ( /\ EsLlamada("actualizarCantidad") /\ ultimo'.ref \in DOMAIN items
             /\ ultimo'.arg > 0 )
            => IF estaDisponible(objetos'[items[ultimo'.ref].producto])
               THEN /\ ultimo'.err = OK
                    /\ items'[ultimo'.ref].cantidad = ultimo'.arg
               ELSE /\ ultimo'.err = ErrNoDisponible
                    /\ items' = items ]_vars

(* A line whose product was depleted after it was added: the line is still
   there with its quantity, and actualizarCantidad is refused *)
C29_Testigo ==
    /\ ultimo.op = "actualizarCantidad" /\ ultimo.ref = 2 /\ ultimo.arg = 2
    /\ ultimo.err = ErrNoDisponible
    /\ 2 \in DOMAIN items /\ items[2].cantidad = 1 /\ items[2].producto = 2
    /\ objetos[2].stock = 0 /\ objetos[2].descuento = 50


(* The CarritoServiceImpl objects constructed so far in c *)
Construidos(c) == {s \in Servicios : c.carrito[s] # 0}

(* The product ids that are a line of the cart of some service *)
LineasDeTodos(c) == UNION {DOMAIN itemsDe(c, s) : s \in Construidos(c)}

(* C30: CarritoCompras.getInstance() returns the same object on every call,
   so all CarritoServiceImpl objects hold the same cart: they see the same
   lines, a line added through one is a line for every other, the cart never
   has more than 10 lines whoever added them and a new product is refused
   through any of them once the lines added through all of them are 10, and
   vaciarCarrito() through one leaves every one with an empty cart. *)
C30_UnCarritoCompartido ==
    [][ /\ carro.instance # 0 => carro'.instance = carro.instance
        /\ \A s \in Construidos(carro') :
              /\ carro'.carrito[s] = carro'.instance
              /\ \A t \in Construidos(carro') : itemsDe(carro', s) = itemsDe(carro', t)
              /\ Cardinality(DOMAIN itemsDe(carro', s)) <= maxItemsPermitidos
        /\ (EsLlamada("servicio.agregarProducto") /\ ultimo'.err = OK)
            => \A t \in Construidos(carro') : ultimo'.ref \in DOMAIN itemsDe(carro', t)
        /\ ( /\ EsLlamada("servicio.agregarProducto")
             /\ Cardinality(LineasDeTodos(carro)) >= maxItemsPermitidos
             /\ ultimo'.ref \notin LineasDeTodos(carro) )
            => (ultimo'.err = ErrMaxItems /\ carro' = carro)
        /\ EsLlamada("servicio.vaciarCarrito")
            => \A t \in Construidos(carro') : itemsDe(carro', t) = <<>> ]_vars

(* An eleventh product refused through s1 when the cart holds the ten lines
   added through s1 and s2 *)
C30_Testigo ==
    /\ ultimo.op = "servicio.agregarProducto" /\ ultimo.arg = "s1"
    /\ ultimo.err = ErrMaxItems
    /\ Construidos(carro) = Servicios
    /\ Cardinality(DOMAIN itemsDe(carro, "s2")) = maxItemsPermitidos
    /\ ultimo.ref \notin DOMAIN itemsDe(carro, "s2")

====
